---------------------------- MODULE Spec2Model ----------------------------
(***************************************************************************)
(* A model of libserialize/json.rs: the Json value type, the Decoder       *)
(* (scanner, recursive-descent parser, value stack) and the Encoder.       *)
(*                                                                         *)
(* Characters are Unicode code points (integers); a text is a sequence of  *)
(* code points.  End of input (Option<char> = None) is the code point EOF. *)
(* An f64 is modelled as an exact decimal m * 10^e (class "fin"), or as    *)
(* one of the non-finite classes "inf" / "nan".                            *)
(***************************************************************************)
EXTENDS Integers, Sequences, FiniteSets, TLC

VARIABLES
    input,      \* the text handed to from_str (the document)
    rdr,        \* Decoder.rdr: the characters not yet pulled from the iterator
    ch,         \* Decoder.ch: the current character, or EOF
    line,       \* Decoder.line
    col,        \* Decoder.col
    parsed,     \* Decoder.parsed
    stack,      \* Decoder.stack
    result,     \* the result of the last parse / decode
    value,      \* the value handed to the encoder
    wr,         \* Encoder.wr: the text written so far
    spaces,     \* Encoder.spaces
    indent,     \* Encoder.indent
    pc          \* which call of the driving program comes next

vars == <<input, rdr, ch, line, col, parsed, stack, result, value, wr,
          spaces, indent, pc>>

decoderVars == <<rdr, ch, line, col, parsed, stack>>
encoderVars == <<wr, spaces, indent>>

-----------------------------------------------------------------------------
(* Characters and texts *)

EOF == -1

\* The code points of the characters the model writes by name.
CharCode ==
    "NUL" :> 0 @@ "SOH" :> 1 @@ "BS" :> 8 @@ "TAB" :> 9 @@ "LF" :> 10 @@
    "FF" :> 12 @@ "CR" :> 13 @@ " " :> 32 @@ "QUOTE" :> 34 @@
    "(" :> 40 @@ ")" :> 41 @@ "+" :> 43 @@
    "," :> 44 @@ "-" :> 45 @@ "." :> 46 @@ "/" :> 47 @@
    "0" :> 48 @@ "1" :> 49 @@ "2" :> 50 @@ "3" :> 51 @@ "4" :> 52 @@
    "5" :> 53 @@ "6" :> 54 @@ "7" :> 55 @@ "8" :> 56 @@ "9" :> 57 @@
    ":" :> 58 @@ "?" :> 63 @@
    "A" :> 65 @@ "B" :> 66 @@ "C" :> 67 @@ "D" :> 68 @@
    "E" :> 69 @@ "F" :> 70 @@ "N" :> 78 @@ "S" :> 83 @@ "T" :> 84 @@
    "U" :> 85 @@ "V" :> 86 @@ "[" :> 91 @@ "BSL" :> 92 @@ "]" :> 93 @@
    "a" :> 97 @@ "b" :> 98 @@ "c" :> 99 @@ "d" :> 100 @@ "e" :> 101 @@
    "f" :> 102 @@ "g" :> 103 @@ "h" :> 104 @@ "i" :> 105 @@ "l" :> 108 @@
    "m" :> 109 @@ "n" :> 110 @@ "o" :> 111 @@ "p" :> 112 @@
    "r" :> 114 @@ "s" :> 115 @@ "t" :> 116 @@ "u" :> 117 @@ "v" :> 118 @@
    "x" :> 120 @@ "y" :> 121 @@ "z" :> 122 @@ "{" :> 123 @@ "}" :> 125

C(name) == CharCode[name]

\* The text whose characters are named by the tuple t.
Str(t) == [i \in 1..Len(t) |-> CharCode[t[i]]]

RECURSIVE Concat(_)
Concat(ss) == IF ss = <<>> THEN <<>> ELSE Head(ss) \o Concat(Tail(ss))

\* s < t for texts: the lexicographic order of ~str (TreeMap's key order).
RECURSIVE str_lt(_, _)
str_lt(s, t) ==
    IF t = <<>> THEN FALSE
    ELSE IF s = <<>> THEN TRUE
    ELSE IF Head(s) # Head(t) THEN Head(s) < Head(t)
    ELSE str_lt(Tail(s), Tail(t))

\* The keys of a TreeMap in iteration order.
RECURSIVE SortedKeys(_)
SortedKeys(S) ==
    IF S = {} THEN <<>>
    ELSE LET k == CHOOSE x \in S : \A y \in S \ {x} : str_lt(x, y)
         IN  <<k>> \o SortedKeys(S \ {k})

IsDigit(c) == c >= 48 /\ c <= 57

-----------------------------------------------------------------------------
(* f64 *)

Fin(m, e) == [c |-> "fin", m |-> m, e |-> e]
Inf(sign) == [c |-> "inf", m |-> sign, e |-> 0]
NaN == [c |-> "nan", m |-> 0, e |-> 0]

Abs(n) == IF n < 0 THEN -n ELSE n

RECURSIVE Pow10(_)
Pow10(n) == IF n = 0 THEN 1 ELSE 10 * Pow10(n - 1)

RECURSIVE NumDigits(_)
NumDigits(n) == IF n < 10 THEN 1 ELSE 1 + NumDigits(n \div 10)

\* The canonical form of m * 10^e: m carries no trailing zero.
RECURSIVE Normalize(_, _)
Normalize(m, e) ==
    IF m = 0 THEN Fin(0, 0)
    ELSE IF m % 10 = 0 THEN Normalize(m \div 10, e + 1)
    ELSE Fin(m, e)

\* The largest exponent n for which 10^n is a finite f64.
MaxPow10 == 308

\* The first nine digits of f64::MAX_VALUE, 1.7976931348623157e308.
MaxValueDigits == 179769313

\* The decimal order below which an f64 is zero (the least subnormal is
\* 4.9e-324).
MinOrder == -323

\* The decimal order of a non-zero m * 10^e: 10^(order-1) <= |x| < 10^order.
Order(x) == NumDigits(Abs(x.m)) + x.e

\* The f64 nearest to the exact decimal m * 10^e: out of range values
\* become an infinity or zero.
f64_of(m, e) ==
    LET x  == Normalize(m, e)
        nd == NumDigits(Abs(x.m))
        sg == IF x.m < 0 THEN -1 ELSE 1
    IN  IF x.m = 0 THEN x
        ELSE IF Order(x) > MaxPow10 + 1 THEN Inf(sg)
        ELSE IF /\ Order(x) = MaxPow10 + 1
                /\ nd <= 9
                /\ Abs(x.m) * Pow10(9 - nd) > MaxValueDigits THEN Inf(sg)
        ELSE IF Order(x) < MinOrder THEN Fin(0, 0)
        ELSE x

f64_neg(x) == IF x.c = "nan" THEN x ELSE [x EXCEPT !.m = -x.m]

\* f64 == : NaN equals nothing, not even itself.
f64_eq(x, y) == x.c # "nan" /\ y.c # "nan" /\ x = y

-----------------------------------------------------------------------------
(* let x = v; ... : F is the rest of the block, with x as its parameter *)

Let(v, F(_)) == F(v)

-----------------------------------------------------------------------------
(* Json values, errors and results *)

Null == [t |-> "Null", v |-> 0]
Boolean(b) == [t |-> "Boolean", v |-> b]
Number(x) == [t |-> "Number", v |-> x]
String(s) == [t |-> "String", v |-> s]
List(xs) == [t |-> "List", v |-> xs]
\* An Object holds a TreeMap<~str, Json>: a function from keys to values.
Object(m) == [t |-> "Object", v |-> m]

EmptyMap == <<>>

\* TreeMap::insert: a later value for the same key replaces the earlier one.
MapInsert(m, k, v) == [x \in (DOMAIN m) \cup {k} |-> IF x = k THEN v ELSE m[x]]

\* #[deriving(Eq)] for Json: the same variant and equal payloads.
RECURSIVE json_eq(_, _)
json_eq(a, b) ==
    /\ a.t = b.t
    /\ CASE a.t = "Null" -> TRUE
         [] a.t = "Number" -> f64_eq(a.v, b.v)
         [] a.t = "List" ->
              /\ Len(a.v) = Len(b.v)
              /\ \A i \in 1..Len(a.v) : json_eq(a.v[i], b.v[i])
         [] a.t = "Object" ->
              /\ DOMAIN a.v = DOMAIN b.v
              /\ \A k \in DOMAIN a.v : json_eq(a.v[k], b.v[k])
         [] OTHER -> a.v = b.v

\* In a message, ' stands for the backquote of the source's text.
ParseError(msg, l, c) == [kind |-> "ParseError", msg |-> msg, line |-> l, col |-> c]

\* A call returns Ok(v) or Err(e), or it fails the task (fail!, unwrap on
\* None): Failure.
Ok(v) == [k |-> "Ok", v |-> v]
Err(e) == [k |-> "Err", v |-> e]
Failure == [k |-> "Failure", v |-> 0]
NoResult == [k |-> "None", v |-> 0]

IsOk(r) == r.k = "Ok"
IsErr(r) == r.k = "Err"

-----------------------------------------------------------------------------
(* The Decoder.  Its methods are operators on a record d of the struct's   *)
(* fields (rdr, ch, line, col, parsed, stack); each returns the record d   *)
(* after the call and, when it has one, its result r.                      *)

eof(d) == d.ch = EOF

ch_or_null(d) == IF d.ch = EOF THEN 0 ELSE d.ch

ch_is(d, c) == d.ch = c

\* Iterator::next on the character iterator.
rdr_next(d) == IF d.rdr = <<>> THEN EOF ELSE Head(d.rdr)

\* bump, but the column starts again from 0 at a newline.
bump_col0(d) ==
    LET c == rdr_next(d)
        r == IF d.rdr = <<>> THEN <<>> ELSE Tail(d.rdr)
    IN  IF c = C("LF")
        THEN [d EXCEPT !.rdr = r, !.ch = c, !.line = d.line + 1, !.col = 0]
        ELSE [d EXCEPT !.rdr = r, !.ch = c, !.col = d.col + 1]

bump(d) ==
    LET c == rdr_next(d)
        r == IF d.rdr = <<>> THEN <<>> ELSE Tail(d.rdr)
    IN  IF c = C("LF")
        THEN [d EXCEPT !.rdr = r, !.ch = c, !.line = d.line + 1, !.col = 1]
        ELSE [d EXCEPT !.rdr = r, !.ch = c, !.col = d.col + 1]

\* Decoder::new: ch = Some('\x00'), line 1, column 0, unparsed, an empty
\* stack; then one bump.
Decoder_new(text) ==
    bump([rdr |-> text, ch |-> 0, line |-> 1, col |-> 0,
          parsed |-> FALSE, stack |-> <<>>])

\* Decoder::error, with the column after the scanner's.
error_next_col(d, msg) ==
    [d |-> d, r |-> Err(ParseError(msg, d.line, d.col + 1))]

\* Decoder::error: the message with the scanner's line and column.
error(d, msg) == [d |-> d, r |-> Err(ParseError(msg, d.line, d.col))]

Done(d, r) == [d |-> d, r |-> r]

\* The characters parse_whitespace skips, with the form feed among them.
IsWhitespace_ff(c) == c \in {C(" "), C("LF"), C("TAB"), C("CR"), C("FF")}

\* The characters parse_whitespace skips.
IsWhitespace(c) == c \in {C(" "), C("LF"), C("TAB"), C("CR")}

RECURSIVE parse_whitespace(_)
parse_whitespace(d) ==
    IF IsWhitespace(d.ch) THEN parse_whitespace(bump(d)) ELSE d

\* ident_all, but next_char is called for every character of ident, also
\* after one that differs.
RECURSIVE ident_all_every(_, _)
ident_all_every(d, ident) ==
    IF ident = <<>> THEN [d |-> d, all |-> TRUE]
    ELSE LET d1 == bump(d)
             rest == ident_all_every(d1, Tail(ident))
         IN  [d |-> rest.d, all |-> d1.ch = Head(ident) /\ rest.all]

\* ident.chars().all(|c| Some(c) == self.next_char()): stops at the first
\* character that differs.
RECURSIVE ident_all(_, _)
ident_all(d, ident) ==
    IF ident = <<>> THEN [d |-> d, all |-> TRUE]
    ELSE LET d1 == bump(d)
         IN  IF d1.ch = Head(ident) THEN ident_all(d1, Tail(ident))
             ELSE [d |-> d1, all |-> FALSE]

\* parse_ident without the bump past the last character of the literal.
parse_ident_no_bump(d, ident, val) ==
    Let(ident_all(d, ident), LAMBDA a :
        IF a.all THEN Done(a.d, Ok(val))
        ELSE error(a.d, "invalid syntax"))

parse_ident(d, ident, val) ==
    Let(ident_all(d, ident), LAMBDA a :
        IF a.all THEN Done(bump(a.d), Ok(val))
        ELSE error(a.d, "invalid syntax"))

-----------------------------------------------------------------------------
(* Numbers *)

DigitVal(c) == c - C("0")

\* The digit loop of parse_integer: res = res * 10 + digit.
RECURSIVE integer_digits(_, _)
integer_digits(d, res) ==
    IF ~eof(d) /\ IsDigit(ch_or_null(d))
    THEN integer_digits(bump(d), res * 10 + DigitVal(d.ch))
    ELSE [d |-> d, res |-> res]

\* parse_integer without the test for a digit after a leading 0.
parse_integer_zeros(d) ==
    IF IsDigit(ch_or_null(d)) THEN
        Let(integer_digits(d, 0), LAMBDA l : Done(l.d, Ok(l.res)))
    ELSE error(d, "invalid number")

\* The result is the integer part as a decimal with mantissa m, scale 0.
parse_integer(d) ==
    IF ch_or_null(d) = C("0") THEN
        Let(bump(d), LAMBDA d1 :
            IF IsDigit(ch_or_null(d1)) THEN error(d1, "invalid number")
            ELSE Done(d1, Ok(0)))
    ELSE IF IsDigit(ch_or_null(d)) THEN
        Let(integer_digits(d, 0), LAMBDA l : Done(l.d, Ok(l.res)))
    ELSE error(d, "invalid number")

\* The digit loop of parse_decimal: dec /= 10; res += digit * dec.  The
\* running value is m / 10^s.
RECURSIVE decimal_digits(_, _, _)
decimal_digits(d, m, s) ==
    IF ~eof(d) /\ IsDigit(ch_or_null(d))
    THEN decimal_digits(bump(d), m * 10 + DigitVal(d.ch), s + 1)
    ELSE [d |-> d, m |-> m, s |-> s]

parse_decimal(d, res) ==
    Let(bump(d), LAMBDA d1 :
        IF ~IsDigit(ch_or_null(d1)) THEN error(d1, "invalid number")
        ELSE Let(decimal_digits(d1, res, 0), LAMBDA l :
                 Done(l.d, Ok([m |-> l.m, s |-> l.s]))))

RECURSIVE exponent_digits(_, _)
exponent_digits(d, exp) ==
    IF ~eof(d) /\ IsDigit(ch_or_null(d))
    THEN exponent_digits(bump(d), exp * 10 + DigitVal(d.ch))
    ELSE [d |-> d, exp |-> exp]

\* res /= 10^exp or res *= 10^exp, where 10^exp is the f64 num::pow gives:
\* an infinity when exp > MaxPow10.
apply_exponent(m, s, exp, neg_exp) ==
    IF exp > MaxPow10
    THEN IF neg_exp THEN Fin(0, 0)
         ELSE IF m = 0 THEN NaN ELSE Inf(1)
    ELSE IF neg_exp THEN f64_of(m, -s - exp) ELSE f64_of(m, exp - s)

\* res is the value m / 10^s read so far.
parse_exponent(d, m, s) ==
    Let(bump(d), LAMBDA d1 :
    Let(IF ch_is(d1, C("+")) \/ ch_is(d1, C("-")) THEN bump(d1) ELSE d1,
        LAMBDA d2 :
        IF ~IsDigit(ch_or_null(d2)) THEN error(d2, "invalid number")
        ELSE Let(exponent_digits(d2, 0), LAMBDA l :
                 Done(l.d, Ok(apply_exponent(m, s, l.exp,
                                             ch_is(d1, C("-"))))))))

parse_number(d) ==
    Let(parse_integer(IF ch_is(d, C("-")) THEN bump(d) ELSE d), LAMBDA i :
    IF ~IsOk(i.r) THEN i
    ELSE
    Let(IF ch_is(i.d, C(".")) THEN parse_decimal(i.d, i.r.v)
        ELSE Done(i.d, Ok([m |-> i.r.v, s |-> 0])), LAMBDA f :
    IF ~IsOk(f.r) THEN f
    ELSE
    Let(IF ch_is(f.d, C("e")) \/ ch_is(f.d, C("E"))
        THEN parse_exponent(f.d, f.r.v.m, f.r.v.s)
        ELSE Done(f.d, Ok(f64_of(f.r.v.m, -f.r.v.s))), LAMBDA x :
    IF ~IsOk(x.r) THEN x
    ELSE Done(x.d, Ok(Number(IF ch_is(d, C("-")) THEN f64_neg(x.r.v)
                             ELSE x.r.v))))))

-----------------------------------------------------------------------------
(* Strings *)

IsHex(c) ==
    \/ IsDigit(c)
    \/ c \in {C("a"), C("b"), C("c"), C("d"), C("e"), C("f")}
    \/ c \in {C("A"), C("B"), C("C"), C("D"), C("E"), C("F")}

HexVal(c) ==
    IF IsDigit(c) THEN c - C("0")
    ELSE IF c >= C("a") THEN c - C("a") + 10
    ELSE c - C("A") + 10

\* The loop that reads the digits of \uXXXX: while i < 4 && !self.eof().
RECURSIVE u_digits(_, _, _)
u_digits(d, i, n) ==
    IF i < 4 /\ ~eof(d) THEN
        Let(bump(d), LAMBDA d1 :
            IF IsHex(ch_or_null(d1))
            THEN u_digits(d1, i + 1, n * 16 + HexVal(d1.ch))
            ELSE [d |-> d1, i |-> i, n |-> n, bad |-> TRUE])
    ELSE [d |-> d, i |-> i, n |-> n, bad |-> FALSE]

\* char::from_u32: None for a surrogate code point.
IsSurrogate(n) == n >= 55296 /\ n <= 57343

\* The character an escape letter stands for; EOF when it stands for none.
EscapeChar(c) ==
    CASE c = C("QUOTE") -> C("QUOTE")
      [] c = C("BSL") -> C("BSL")
      [] c = C("/") -> C("/")
      [] c = C("b") -> C("BS")
      [] c = C("f") -> C("FF")
      [] c = C("n") -> C("LF")
      [] c = C("r") -> C("CR")
      [] c = C("t") -> C("TAB")
      [] OTHER -> EOF

\* The loop of parse_str; d.ch is the character before the next one read.
RECURSIVE str_loop(_, _, _)
str_loop(d, escape, res) ==
    Let(bump(d), LAMBDA d1 :
    IF eof(d1) THEN error(d1, "EOF while parsing string")
    ELSE IF escape THEN
        IF ch_or_null(d1) = C("u") THEN
            Let(u_digits(d1, 0, 0), LAMBDA u :
                IF u.bad
                THEN error(u.d, "invalid \\u escape (unrecognized hex)")
                ELSE IF u.i # 4
                THEN error(u.d, "invalid \\u escape (not four digits)")
                ELSE IF IsSurrogate(u.n) THEN Done(u.d, Failure)
                ELSE str_loop(u.d, FALSE, Append(res, u.n)))
        ELSE IF EscapeChar(ch_or_null(d1)) # EOF
            THEN str_loop(d1, FALSE, Append(res, EscapeChar(d1.ch)))
        ELSE error(d1, "invalid escape")
    ELSE IF ch_is(d1, C("BSL")) THEN str_loop(d1, TRUE, res)
    ELSE IF ch_is(d1, C("QUOTE")) THEN Done(bump(d1), Ok(res))
    ELSE str_loop(d1, FALSE, Append(res, d1.ch)))

parse_str(d) == str_loop(d, FALSE, <<>>)

-----------------------------------------------------------------------------
(* Values, lists and objects *)

RECURSIVE parse_value(_)
RECURSIVE list_loop(_, _)
RECURSIVE object_loop(_, _)

parse_list(d) ==
    Let(parse_whitespace(bump(d)), LAMBDA d1 :
        IF ch_is(d1, C("]")) THEN Done(bump(d1), Ok(List(<<>>)))
        ELSE list_loop(d1, <<>>))

\* list_loop, but each value is put in front of the ones read before it.
list_loop_prepend(d, values) ==
    Let(parse_value(d), LAMBDA v :
    IF ~IsOk(v.r) THEN v
    ELSE
    Let(parse_whitespace(v.d), LAMBDA d1 :
    IF eof(d1) THEN error(d1, "EOF while parsing list")
    ELSE IF ch_is(d1, C(","))
        THEN list_loop(bump(d1), <<v.r.v>> \o values)
    ELSE IF ch_is(d1, C("]"))
        THEN Done(bump(d1), Ok(List(<<v.r.v>> \o values)))
    ELSE error(d1, "expected ',' or ']'")))

\* The loop of parse_list, entered with the values read so far.
list_loop(d, values) ==
    Let(parse_value(d), LAMBDA v :
    IF ~IsOk(v.r) THEN v
    ELSE
    Let(parse_whitespace(v.d), LAMBDA d1 :
    IF eof(d1) THEN error(d1, "EOF while parsing list")
    ELSE IF ch_is(d1, C(","))
        THEN list_loop(bump(d1), Append(values, v.r.v))
    ELSE IF ch_is(d1, C("]"))
        THEN Done(bump(d1), Ok(List(Append(values, v.r.v))))
    ELSE error(d1, "expected ',' or ']'")))

parse_object(d) ==
    Let(parse_whitespace(bump(d)), LAMBDA d1 :
        IF ch_is(d1, C("}")) THEN Done(bump(d1), Ok(Object(EmptyMap)))
        ELSE object_loop(d1, EmptyMap))

\* object_loop, but a key that already has a value keeps it.
object_loop_keep_first(d, values) ==
    IF eof(d) THEN error(d, "EOF while parsing object")
    ELSE
    Let(parse_whitespace(d), LAMBDA d1 :
    IF ~ch_is(d1, C("QUOTE")) THEN error(d1, "key must be a string")
    ELSE
    Let(parse_str(d1), LAMBDA key :
    IF ~IsOk(key.r) THEN key
    ELSE
    Let(parse_whitespace(key.d), LAMBDA d2 :
    IF ~ch_is(d2, C(":")) THEN
        IF eof(d2) THEN error(d2, "EOF while parsing object")
        ELSE error(d2, "expected ':'")
    ELSE
    Let(parse_value(bump(d2)), LAMBDA v :
    IF ~IsOk(v.r) THEN v
    ELSE
    Let(IF key.r.v \in DOMAIN values THEN values
        ELSE MapInsert(values, key.r.v, v.r.v), LAMBDA vs :
    Let(parse_whitespace(v.d), LAMBDA d3 :
    IF ch_or_null(d3) = C(",") THEN object_loop(bump(d3), vs)
    ELSE IF ch_or_null(d3) = C("}") THEN Done(bump(d3), Ok(Object(vs)))
    ELSE IF eof(d3) THEN error(d3, "EOF while parsing object")
    ELSE error(d3, "expected ',' or '}'")))))))

\* The loop of parse_object (while !self.eof()), entered with the entries
\* read so far; leaving the loop is the error "EOF while parsing object".
object_loop(d, values) ==
    IF eof(d) THEN error(d, "EOF while parsing object")
    ELSE
    Let(parse_whitespace(d), LAMBDA d1 :
    IF ~ch_is(d1, C("QUOTE")) THEN error(d1, "key must be a string")
    ELSE
    Let(parse_str(d1), LAMBDA key :
    IF ~IsOk(key.r) THEN key
    ELSE
    Let(parse_whitespace(key.d), LAMBDA d2 :
    IF ~ch_is(d2, C(":")) THEN
        IF eof(d2) THEN error(d2, "EOF while parsing object")
        ELSE error(d2, "expected ':'")
    ELSE
    Let(parse_value(bump(d2)), LAMBDA v :
    IF ~IsOk(v.r) THEN v
    ELSE
    Let(parse_whitespace(v.d), LAMBDA d3 :
    IF ch_or_null(d3) = C(",")
        THEN object_loop(bump(d3), MapInsert(values, key.r.v, v.r.v))
    ELSE IF ch_or_null(d3) = C("}")
        THEN Done(bump(d3), Ok(Object(MapInsert(values, key.r.v, v.r.v))))
    ELSE IF eof(d3) THEN error(d3, "EOF while parsing object")
    ELSE error(d3, "expected ',' or '}'"))))))

parse_value(d0) ==
    Let(parse_whitespace(d0), LAMBDA d :
    IF eof(d) THEN error(d, "EOF while parsing value")
    ELSE IF ch_or_null(d) = C("n")
        THEN parse_ident(d, Str(<<"u", "l", "l">>), Null)
    ELSE IF ch_or_null(d) = C("t")
        THEN parse_ident(d, Str(<<"r", "u", "e">>), Boolean(TRUE))
    ELSE IF ch_or_null(d) = C("f")
        THEN parse_ident(d, Str(<<"a", "l", "s", "e">>), Boolean(FALSE))
    ELSE IF IsDigit(ch_or_null(d)) \/ ch_or_null(d) = C("-")
        THEN parse_number(d)
    ELSE IF ch_or_null(d) = C("QUOTE") THEN
        Let(parse_str(d), LAMBDA s :
            IF IsOk(s.r) THEN Done(s.d, Ok(String(s.r.v))) ELSE s)
    ELSE IF ch_or_null(d) = C("[") THEN parse_list(d)
    ELSE IF ch_or_null(d) = C("{") THEN parse_object(d)
    ELSE error(d, "invalid syntax"))

\* Decoder::parse without the test for the end of the input.
parse_any_rest(d) ==
    Let(parse_value(d), LAMBDA v :
    Let(IF ~IsOk(v.r) THEN v ELSE Done(parse_whitespace(v.d), v.r), LAMBDA r :
        Done([r.d EXCEPT !.parsed = TRUE], r.r)))

\* Decoder::parse: one value, trailing whitespace, then end of input;
\* parsed is set whatever the result.
parse(d) ==
    Let(parse_value(d), LAMBDA v :
    Let(IF ~IsOk(v.r) THEN v
        ELSE Let(parse_whitespace(v.d), LAMBDA d1 :
                 IF eof(d1) THEN Done(d1, v.r)
                 ELSE error(d1, "trailing characters")), LAMBDA r :
        Done([r.d EXCEPT !.parsed = TRUE], r.r)))

\* from_str::<Json>: a new Decoder and its first pop.
from_str(text) == parse(Decoder_new(text)).r

-----------------------------------------------------------------------------
(* The Encoder: wr, spaces, indent.  The emit methods are operators on a   *)
(* record e of these three fields and return the record after the call.    *)
(* A method that takes a closure f is split at the call of f into the part *)
(* before it and the part after it.  The writer is a MemWriter: no write   *)
(* fails.                                                                  *)

Encoder(w, sp, ind) == [wr |-> w, spaces |-> sp, indent |-> ind]

\* Encoder::new and Encoder::new_pretty.
Encoder_new == Encoder(<<>>, 0, 0)
Encoder_new_pretty == Encoder(<<>>, 2, 0)

write(e, text) == [e EXCEPT !.wr = e.wr \o text]

RECURSIVE escape_chars(_)
escape_chars(s) ==
    IF s = <<>> THEN <<>>
    ELSE LET c == Head(s)
             x == CASE c = C("QUOTE") -> <<C("BSL"), C("QUOTE")>>
                    [] c = C("BSL") -> <<C("BSL"), C("BSL")>>
                    [] c = C("BS") -> <<C("BSL"), C("b")>>
                    [] c = C("FF") -> <<C("BSL"), C("f")>>
                    [] c = C("LF") -> <<C("BSL"), C("n")>>
                    [] c = C("CR") -> <<C("BSL"), C("r")>>
                    [] c = C("TAB") -> <<C("BSL"), C("t")>>
                    [] OTHER -> <<c>>
         IN  x \o escape_chars(Tail(s))

\* escape_str with the characters written as they are.
escape_str_unescaped(s) == <<C("QUOTE")>> \o s \o <<C("QUOTE")>>

escape_str(s) == <<C("QUOTE")>> \o escape_chars(s) \o <<C("QUOTE")>>

\* fn spaces(n): n spaces.
spaces_str(n) == [i \in 1..n |-> C(" ")]

\* The decimal digits of the natural number n.
RECURSIVE DigitsOf(_)
DigitsOf(n) ==
    IF n < 10 THEN <<C("0") + n>>
    ELSE Append(DigitsOf(n \div 10), C("0") + (n % 10))

\* The k decimal digits of n < 10^k, with leading zeros.
RECURSIVE PaddedDigits(_, _)
PaddedDigits(n, k) ==
    IF k = 0 THEN <<>> ELSE Append(PaddedDigits(n \div 10, k - 1), C("0") + (n % 10))

RECURSIVE TrimZeros(_)
TrimZeros(s) ==
    IF s # <<>> /\ s[Len(s)] = C("0") THEN TrimZeros(SubSeq(s, 1, Len(s) - 1))
    ELSE s

\* The number of fractional digits emit_f64 asks for.
FracDigits == 6

\* f64::to_str_digits(x, FracDigits): the integer part, then, when one is
\* left after rounding to FracDigits fractional digits and trimming the
\* trailing zeros, '.' and the fractional digits.
to_str_digits(x) ==
    IF x.c = "nan" THEN Str(<<"N", "a", "N">>)
    ELSE IF x.c = "inf"
        THEN (IF x.m < 0 THEN <<C("-")>> ELSE <<>>) \o Str(<<"i", "n", "f">>)
    ELSE
    LET sign == IF x.m < 0 THEN <<C("-")>> ELSE <<>>
        a    == Abs(x.m)
        \* q = |x| * 10^FracDigits, rounded half up
        q    == IF x.e >= 0 THEN 0
                ELSE IF -x.e <= FracDigits THEN a * Pow10(FracDigits + x.e)
                ELSE IF Order(x) < -FracDigits THEN 0
                ELSE (a + 5 * Pow10(-x.e - FracDigits - 1))
                         \div Pow10(-x.e - FracDigits)
        unit == Pow10(FracDigits)
        frac == TrimZeros(PaddedDigits(q % unit, FracDigits))
    IN  IF x.e >= 0
        THEN sign \o DigitsOf(a) \o [i \in 1..x.e |-> C("0")]
        ELSE sign \o DigitsOf(q \div unit)
                  \o (IF frac = <<>> THEN <<>> ELSE <<C(".")>> \o frac)

emit_nil(e) == write(e, Str(<<"n", "u", "l", "l">>))

emit_bool(e, v) ==
    IF v THEN write(e, Str(<<"t", "r", "u", "e">>))
    ELSE write(e, Str(<<"f", "a", "l", "s", "e">>))

emit_f64(e, v) == write(e, to_str_digits(v))

emit_str(e, v) == write(e, escape_str(v))

\* emit_struct up to the call of f, and from its return.
emit_struct_open(e) ==
    [write(e, <<C("{")>>) EXCEPT !.indent = e.indent + e.spaces]

emit_struct_close(e) ==
    LET e1 == [e EXCEPT !.indent = e.indent - e.spaces]
        e2 == IF e1.spaces > 0
              THEN write(e1, <<C("LF")>> \o spaces_str(e1.indent))
              ELSE e1
    IN  write(e2, <<C("}")>>)

\* emit_struct_field up to the call of f.
emit_struct_field(e, name, idx) ==
    LET e1 == IF idx # 0 THEN write(e, <<C(",")>>) ELSE e
        e2 == IF e1.spaces > 0
              THEN write(e1, <<C("LF")>> \o spaces_str(e1.indent))
              ELSE e1
    IN  write(e2, escape_str(name) \o <<C(":")>>)

\* emit_seq with len # 0, up to the call of f, and from its return.
emit_seq_open(e) ==
    [write(e, <<C("[")>>) EXCEPT !.indent = e.indent + e.spaces]

emit_seq_close(e) ==
    LET e1 == [e EXCEPT !.indent = e.indent - e.spaces]
        e2 == IF e1.spaces > 0
              THEN write(e1, <<C("LF")>> \o spaces_str(e1.indent))
              ELSE e1
    IN  write(e2, <<C("]")>>)

emit_seq_empty(e) == write(e, <<C("["), C("]")>>)

\* emit_seq_elt, but with a space after the comma.
emit_seq_elt_spaced(e, idx) ==
    IF idx # 0 THEN write(e, <<C(","), C(" ")>>) ELSE e

\* emit_seq_elt up to the call of f.
emit_seq_elt(e, idx) == IF idx # 0 THEN write(e, <<C(",")>>) ELSE e

\* emit_map is emit_struct.
emit_map_open(e) == emit_struct_open(e)
emit_map_close(e) == emit_struct_close(e)

\* emit_map_elt_key with the key's text written as it is.
emit_map_elt_key_bare(e, idx, out) ==
    write(IF idx # 0 THEN write(e, <<C(",")>>) ELSE e, out \o <<C(":")>>)

\* emit_map_elt_key, where out is the text f wrote to the check_encoder.
emit_map_elt_key(e, idx, out) ==
    LET e1 == IF idx # 0 THEN write(e, <<C(",")>>) ELSE e
        e2 == IF e1.spaces > 0
              THEN write(e1, <<C("LF")>> \o spaces_str(e1.indent))
              ELSE e1
    IN  write(e2, escape_str(out) \o <<C(":")>>)

-----------------------------------------------------------------------------
(* Encodable for Json, and for the collections it holds *)

RECURSIVE encode(_, _)
RECURSIVE encode_seq_elts(_, _, _)
RECURSIVE encode_map_entries(_, _, _)

\* Encodable for Vec<T>: emit_seq(len, ...) with one emit_seq_elt per
\* element, in order.
encode_vec(e, xs) ==
    IF Len(xs) = 0 THEN emit_seq_empty(e)
    ELSE emit_seq_close(encode_seq_elts(emit_seq_open(e), xs, 0))

encode_seq_elts(e, xs, idx) ==
    IF xs = <<>> THEN e
    ELSE encode_seq_elts(encode(emit_seq_elt(e, idx), Head(xs)), Tail(xs), idx + 1)

\* Encodable for a map: emit_map(len, ...) with emit_map_elt_key and
\* emit_map_elt_val per entry, in the map's iteration order.  entries is
\* the sequence of <<key, value>> pairs in that order; the key closure
\* encodes the key into the check_encoder, a compact Encoder of its own.
encode_map(e, entries) ==
    emit_map_close(encode_map_entries(emit_map_open(e), entries, 0))

encode_map_entries(e, entries, idx) ==
    IF entries = <<>> THEN e
    ELSE Let(emit_map_elt_key(e, idx, encode(Encoder_new, Head(entries)[1]).wr),
             LAMBDA e1 :
             encode_map_entries(encode(e1, Head(entries)[2]), Tail(entries),
                                idx + 1))

\* The entries of a TreeMap<~str, Json> in iteration (key) order.
TreeMapEntries(m) ==
    LET ks == SortedKeys(DOMAIN m)
    IN  [i \in 1..Len(ks) |-> <<String(ks[i]), m[ks[i]]>>]

\* Encodable for Json.
encode(e, v) ==
    CASE v.t = "Number" -> emit_f64(e, v.v)
      [] v.t = "String" -> emit_str(e, v.v)
      [] v.t = "Boolean" -> emit_bool(e, v.v)
      [] v.t = "List" -> encode_vec(e, v.v)
      [] v.t = "Object" -> encode_map(e, TreeMapEntries(v.v))
      [] v.t = "Null" -> emit_nil(e)

\* Json::to_writer with a fresh writer (to_str), and to_pretty_str.
to_str(v) == encode(Encoder_new, v).wr
to_pretty_str(v) == encode(Encoder_new_pretty, v).wr

-----------------------------------------------------------------------------
(* The typed decoder: pop and the reads *)

ExpectedError(what, got) == [kind |-> "ExpectedError", what |-> what, got |-> got]

\* Vec::pop on the stack, unwrapped: the task fails on an empty stack.
stack_pop(d) ==
    IF d.stack = <<>> THEN Done(d, Failure)
    ELSE Done([d EXCEPT !.stack = SubSeq(d.stack, 1, Len(d.stack) - 1)],
              Ok(d.stack[Len(d.stack)]))

stack_push(d, v) == [d EXCEPT !.stack = Append(d.stack, v)]

\* Decoder::pop, but the document is parsed whenever the stack is empty.
pop_parse_on_empty(d) ==
    IF d.stack = <<>> THEN
        Let(parse(d), LAMBDA p :
            IF ~IsOk(p.r) THEN p ELSE stack_pop(stack_push(p.d, p.r.v)))
    ELSE stack_pop(d)

\* Decoder::pop: the first pop parses the document and pushes the root.
pop(d) ==
    IF ~d.parsed THEN
        Let(parse(d), LAMBDA p :
            IF ~IsOk(p.r) THEN p ELSE stack_pop(stack_push(p.d, p.r.v)))
    ELSE stack_pop(d)

\* FromStr for f64: the number a decimal text denotes, if it denotes one.
f64_from_str(s) ==
    Let(parse_number(Decoder_new(s)), LAMBDA p :
        IF IsOk(p.r) /\ eof(p.d) THEN Ok(p.r.v.v) ELSE Failure)

read_f64(d) ==
    Let(pop(d), LAMBDA p :
        IF ~IsOk(p.r) THEN p
        ELSE IF p.r.v.t = "Number" THEN Done(p.d, Ok(p.r.v.v))
        ELSE IF p.r.v.t = "String" THEN Done(p.d, f64_from_str(p.r.v.v))
        ELSE Done(p.d, Err(ExpectedError("Number", to_str(p.r.v)))))

\* What stands for the result of a cast the language leaves undefined (of
\* a negative or non-finite f64 to uint): no uint at all.
UndefinedUint == -1

\* x as uint: the integer part of a non-negative finite x.
f64_as_uint(x) ==
    IF x.c # "fin" \/ x.m < 0 THEN UndefinedUint
    ELSE IF x.e >= 0 THEN x.m * Pow10(x.e)
    ELSE IF -x.e > 9 THEN 0
    ELSE x.m \div Pow10(-x.e)

read_uint(d) ==
    Let(read_f64(d), LAMBDA p :
        IF ~IsOk(p.r) THEN p ELSE Done(p.d, Ok(f64_as_uint(p.r.v))))

read_bool(d) ==
    Let(pop(d), LAMBDA p :
        IF ~IsOk(p.r) THEN p
        ELSE IF p.r.v.t = "Boolean" THEN Done(p.d, Ok(p.r.v.v))
        ELSE Done(p.d, Err(ExpectedError("Boolean", to_str(p.r.v)))))

\* The pushes of read_map, but each key before its value.
RECURSIVE push_entries(_, _)
push_entries_key_first(d, entries) ==
    IF entries = <<>> THEN d
    ELSE push_entries(stack_push(stack_push(d, Head(entries)[1]), Head(entries)[2]),
                      Tail(entries))

\* The pushes of read_map: for each entry in key order, the value and then
\* the key as a String.
push_entries(d, entries) ==
    IF entries = <<>> THEN d
    ELSE push_entries(stack_push(stack_push(d, Head(entries)[2]), Head(entries)[1]),
                      Tail(entries))

\* read_map up to the call of f: r is the len handed to f.
read_map(d) ==
    Let(pop(d), LAMBDA p :
        IF ~IsOk(p.r) THEN p
        ELSE IF p.r.v.t # "Object"
        THEN Done(p.d, Err(ExpectedError("Object", to_str(p.r.v))))
        ELSE Done(push_entries(p.d, TreeMapEntries(p.r.v.v)),
                  Ok(Cardinality(DOMAIN p.r.v.v))))

\* Decodable for HashMap<uint, bool>, the closure handed to read_map: len
\* times read_map_elt_key (a read_uint) then read_map_elt_val (a
\* read_bool), each entry inserted into the map.
RECURSIVE decode_map_entries(_, _, _)
decode_map_entries(d, len, map) ==
    IF len = 0 THEN Done(d, Ok(map))
    ELSE Let(read_uint(d), LAMBDA k :
             IF ~IsOk(k.r) THEN k
             ELSE Let(read_bool(k.d), LAMBDA v :
                      IF ~IsOk(v.r) THEN v
                      ELSE decode_map_entries(v.d, len - 1,
                                              MapInsert(map, k.r.v, v.r.v))))

decode_hashmap(d) ==
    Let(read_map(d), LAMBDA m :
        IF ~IsOk(m.r) THEN m ELSE decode_map_entries(m.d, m.r.v, EmptyMap))

\* Decodable for Json: the next value, whatever it is.
decode_json(d) == pop(d)

\* The pushes of read_seq: the elements from the last to the first.
RECURSIVE push_rev(_, _)
push_rev(d, list) ==
    IF list = <<>> THEN d
    ELSE push_rev(stack_push(d, list[Len(list)]), SubSeq(list, 1, Len(list) - 1))

\* read_seq, but the elements are pushed from the first to the last.
read_seq_forward(d) ==
    Let(pop(d), LAMBDA p :
        IF ~IsOk(p.r) THEN p
        ELSE IF p.r.v.t # "List"
        THEN Done(p.d, Err(ExpectedError("List", to_str(p.r.v))))
        ELSE Done([p.d EXCEPT !.stack = p.d.stack \o p.r.v.v],
                  Ok(Len(p.r.v.v))))

\* read_seq up to the call of f: r is the len handed to f.
read_seq(d) ==
    Let(pop(d), LAMBDA p :
        IF ~IsOk(p.r) THEN p
        ELSE IF p.r.v.t # "List"
        THEN Done(p.d, Err(ExpectedError("List", to_str(p.r.v))))
        ELSE Done(push_rev(p.d, p.r.v.v), Ok(Len(p.r.v.v))))

\* read_tuple and read_tuple_struct hand f to read_seq.
read_tuple(d) == read_seq(d)
read_tuple_struct(d) == read_tuple(d)

\* The three ways into read_seq.
SeqReads == {"read_seq", "read_tuple", "read_tuple_struct"}

read_seq_by(d, via) ==
    CASE via = "read_seq" -> read_seq(d)
      [] via = "read_tuple" -> read_tuple(d)
      [] via = "read_tuple_struct" -> read_tuple_struct(d)

\* A decoded Vec<T>: its elements in order.
Vec(xs) == [t |-> "Vec", v |-> xs]

\* Decodable for a Vec nested depth deep over Json (depth 0 is Json
\* itself): read_seq, then len times read_seq_elt with the element's
\* decode as its closure (read_seq_elt, read_tuple_arg and
\* read_tuple_struct_arg only call the closure); the elements are collected
\* in the order they are read.
RECURSIVE decode_vec(_, _, _)
RECURSIVE decode_elts(_, _, _, _, _)
decode_vec(d, depth, via) ==
    IF depth = 0 THEN decode_json(d)
    ELSE Let(read_seq_by(d, via), LAMBDA s :
             IF ~IsOk(s.r) THEN s
             ELSE decode_elts(s.d, s.r.v, <<>>, depth, via))

decode_elts(d, len, acc, depth, via) ==
    IF Len(acc) = len THEN Done(d, Ok(Vec(acc)))
    ELSE Let(decode_vec(d, depth - 1, via), LAMBDA v :
             IF ~IsOk(v.r) THEN v
             ELSE decode_elts(v.d, len, Append(acc, v.r.v), depth, via))

-----------------------------------------------------------------------------
(* The typed decoder: strings, integers, enums and maps with string keys.  *)
(* A decoded value is a record of its type t and its content v.            *)

MissingFieldError(name) == [kind |-> "MissingFieldError", name |-> name]
UnknownVariantError(name) == [kind |-> "UnknownVariantError", name |-> name]

\* A ~str and an int.
TStr(s) == [t |-> "str", v |-> s]
TInt(n) == [t |-> "int", v |-> n]

\* What stands for the result of a cast to int the language leaves
\* undefined (of a non-finite f64).
UndefinedInt == [t |-> "undef", v |-> 0]

read_str(d) ==
    Let(pop(d), LAMBDA p :
        IF ~IsOk(p.r) THEN p
        ELSE IF p.r.v.t = "String" THEN Done(p.d, Ok(p.r.v.v))
        ELSE Done(p.d, Err(ExpectedError("String", to_str(p.r.v)))))

\* x as int: x without its fraction.
f64_as_int(x) ==
    IF x.c # "fin" THEN UndefinedInt
    ELSE IF x.e >= 0 THEN TInt(x.m * Pow10(x.e))
    ELSE IF -x.e > 9 THEN TInt(0)
    ELSE IF x.m >= 0 THEN TInt(x.m \div Pow10(-x.e))
    ELSE TInt(-((-x.m) \div Pow10(-x.e)))

read_int(d) ==
    Let(read_f64(d), LAMBDA p :
        IF ~IsOk(p.r) THEN p ELSE Done(p.d, Ok(f64_as_int(p.r.v))))

\* names.iter().position(...): the index of name among names, from 0.
variant_position(d, names, name) ==
    IF \E i \in DOMAIN names : names[i] = name
    THEN Done(d, Ok((CHOOSE i \in DOMAIN names :
                        /\ names[i] = name
                        /\ \A j \in DOMAIN names : names[j] = name => i <= j)
                    - 1))
    ELSE Done(d, Err(UnknownVariantError(name)))

\* The keys read_enum_variant looks up.
variant_key == Str(<<"v", "a", "r", "i", "a", "n", "t">>)
fields_key == Str(<<"f", "i", "e", "l", "d", "s">>)

\* read_enum_variant, but "fields" is looked up before "variant".
read_enum_variant_fields_first(d, names) ==
    Let(pop(d), LAMBDA p :
    IF ~IsOk(p.r) THEN p
    ELSE IF p.r.v.t = "String" THEN variant_position(p.d, names, p.r.v.v)
    ELSE IF p.r.v.t # "Object"
    THEN Done(p.d, Err(ExpectedError("String or Object", to_str(p.r.v))))
    ELSE
    Let(p.r.v.v, LAMBDA o :
    IF fields_key \notin DOMAIN o
    THEN Done(p.d, Err(MissingFieldError(fields_key)))
    ELSE IF o[fields_key].t # "List"
    THEN Done(p.d, Err(ExpectedError("List", to_str(o[fields_key]))))
    ELSE IF variant_key \notin DOMAIN o
    THEN Done(p.d, Err(MissingFieldError(variant_key)))
    ELSE IF o[variant_key].t # "String"
    THEN Done(p.d, Err(ExpectedError("String", to_str(o[variant_key]))))
    ELSE variant_position(push_rev(p.d, o[fields_key].v), names,
                          o[variant_key].v)))

\* read_enum_variant, but the fields are pushed from the first to the last.
read_enum_variant_forward(d, names) ==
    Let(pop(d), LAMBDA p :
    IF ~IsOk(p.r) THEN p
    ELSE IF p.r.v.t = "String" THEN variant_position(p.d, names, p.r.v.v)
    ELSE IF p.r.v.t # "Object"
    THEN Done(p.d, Err(ExpectedError("String or Object", to_str(p.r.v))))
    ELSE
    Let(p.r.v.v, LAMBDA o :
    IF variant_key \notin DOMAIN o
    THEN Done(p.d, Err(MissingFieldError(variant_key)))
    ELSE IF o[variant_key].t # "String"
    THEN Done(p.d, Err(ExpectedError("String", to_str(o[variant_key]))))
    ELSE IF fields_key \notin DOMAIN o
    THEN Done(p.d, Err(MissingFieldError(fields_key)))
    ELSE IF o[fields_key].t # "List"
    THEN Done(p.d, Err(ExpectedError("List", to_str(o[fields_key]))))
    ELSE variant_position([p.d EXCEPT !.stack = p.d.stack \o o[fields_key].v],
                          names, o[variant_key].v)))

\* read_enum_variant up to the call of f: r is the idx handed to f.
read_enum_variant(d, names) ==
    Let(pop(d), LAMBDA p :
    IF ~IsOk(p.r) THEN p
    ELSE IF p.r.v.t = "String" THEN variant_position(p.d, names, p.r.v.v)
    ELSE IF p.r.v.t # "Object"
    THEN Done(p.d, Err(ExpectedError("String or Object", to_str(p.r.v))))
    ELSE
    Let(p.r.v.v, LAMBDA o :
    IF variant_key \notin DOMAIN o
    THEN Done(p.d, Err(MissingFieldError(variant_key)))
    ELSE IF o[variant_key].t # "String"
    THEN Done(p.d, Err(ExpectedError("String", to_str(o[variant_key]))))
    ELSE IF fields_key \notin DOMAIN o
    THEN Done(p.d, Err(MissingFieldError(fields_key)))
    ELSE IF o[fields_key].t # "List"
    THEN Done(p.d, Err(ExpectedError("List", to_str(o[fields_key]))))
    ELSE variant_position(push_rev(p.d, o[fields_key].v), names,
                          o[variant_key].v)))

\* read_enum_struct_variant hands names and f to read_enum_variant.
read_enum_struct_variant(d, names) == read_enum_variant(d, names)

\* enum Animal { Dog, Frog(~str, int) }: each variant's name and the types
\* of its arguments.
Animal ==
    <<[name |-> Str(<<"D", "o", "g">>), args |-> <<>>],
      [name |-> Str(<<"F", "r", "o", "g">>), args |-> <<"str", "int">>]>>

variant_names(decl) == [i \in DOMAIN decl |-> decl[i].name]

\* A value of an enum: the variant's name and its arguments.
Variant(name, args) == [t |-> "Variant", v |-> <<name, args>>]

\* A decoded map with ~str keys: its entries, <<key, value>>, in the order
\* they were inserted.
Map(entries) == [t |-> "Map", v |-> entries]

\* Decodable::decode for a value of type T: Json, ~str, int, Animal,
\* Vec<Json> or TreeMap<~str, Animal>.
RECURSIVE decode_typed(_, _)
RECURSIVE decode_args(_, _, _)
RECURSIVE decode_entries(_, _, _, _)

\* #[deriving(Decodable)] for an enum: read_enum, read_enum_variant with
\* the names, and in its closure one read_enum_variant_arg per argument
\* of the variant idx, in order (read_enum and read_enum_variant_arg only
\* call the closure).
decode_enum(d, decl) ==
    Let(read_enum_variant(d, variant_names(decl)), LAMBDA i :
        IF ~IsOk(i.r) THEN i ELSE decode_args(i.d, decl[i.r.v + 1], <<>>))

decode_args(d, variant, acc) ==
    IF Len(acc) = Len(variant.args) THEN Done(d, Ok(Variant(variant.name, acc)))
    ELSE Let(decode_typed(d, variant.args[Len(acc) + 1]), LAMBDA a :
             IF ~IsOk(a.r) THEN a
             ELSE decode_args(a.d, variant, Append(acc, a.r.v)))

\* Decodable for TreeMap<~str, V>: read_map, and in its closure len times
\* read_map_elt_key (a read_str) and read_map_elt_val (V's decode), each
\* entry inserted as it is read (the two only call their closures).
decode_treemap(d, V) ==
    Let(read_map(d), LAMBDA m :
        IF ~IsOk(m.r) THEN m ELSE decode_entries(m.d, m.r.v, <<>>, V))

decode_entries(d, len, acc, V) ==
    IF Len(acc) = len THEN Done(d, Ok(Map(acc)))
    ELSE Let(read_str(d), LAMBDA k :
             IF ~IsOk(k.r) THEN k
             ELSE Let(decode_typed(k.d, V), LAMBDA v :
                      IF ~IsOk(v.r) THEN v
                      ELSE decode_entries(v.d, len,
                                          Append(acc, <<k.r.v, v.r.v>>), V)))

decode_typed(d, T) ==
    CASE T = "Json" -> decode_json(d)
      [] T = "str" ->
           Let(read_str(d), LAMBDA s :
               IF IsOk(s.r) THEN Done(s.d, Ok(TStr(s.r.v))) ELSE s)
      [] T = "int" -> read_int(d)
      [] T = "Animal" -> decode_enum(d, Animal)
      [] T = "Vec" -> decode_vec(d, 1, "read_seq")
      [] T = "TreeMap" -> decode_treemap(d, "Animal")

-----------------------------------------------------------------------------
(* The typed decoder: structs *)

\* TreeMap::pop: the map without the key k.
MapPop(m, k) == [x \in (DOMAIN m) \ {k} |-> m[x]]

\* A decoded struct: its fields, <<name, value>>, in the order they were
\* read.
Struct(fields) == [t |-> "Struct", v |-> fields]

\* read_struct_field, but the Object pushed back still has the entry.
read_struct_field_keep(d, name, T) ==
    Let(pop(d), LAMBDA p :
    IF ~IsOk(p.r) THEN p
    ELSE IF p.r.v.t # "Object"
    THEN Done(p.d, Err(ExpectedError("Object", to_str(p.r.v))))
    ELSE IF name \notin DOMAIN p.r.v.v
    THEN Done(p.d, Err(MissingFieldError(name)))
    ELSE
    Let(decode_typed(stack_push(p.d, p.r.v.v[name]), T), LAMBDA v :
        IF ~IsOk(v.r) THEN v
        ELSE Done(stack_push(v.d, p.r.v), v.r)))

\* read_struct_field with T's decode as its closure.
read_struct_field(d, name, T) ==
    Let(pop(d), LAMBDA p :
    IF ~IsOk(p.r) THEN p
    ELSE IF p.r.v.t # "Object"
    THEN Done(p.d, Err(ExpectedError("Object", to_str(p.r.v))))
    ELSE IF name \notin DOMAIN p.r.v.v
    THEN Done(p.d, Err(MissingFieldError(name)))
    ELSE
    Let(decode_typed(stack_push(p.d, p.r.v.v[name]), T), LAMBDA v :
        IF ~IsOk(v.r) THEN v
        ELSE Done(stack_push(v.d, Object(MapPop(p.r.v.v, name))), v.r)))

\* The closure of a struct's decode: one read_struct_field per entry of
\* reads, <<name, type>>, in order; the fields read so far are acc.
RECURSIVE struct_fields(_, _, _)
struct_fields(d, reads, acc) ==
    IF reads = <<>> THEN Done(d, Ok(Struct(acc)))
    ELSE Let(read_struct_field(d, Head(reads)[1], Head(reads)[2]), LAMBDA f :
             IF ~IsOk(f.r) THEN f
             ELSE struct_fields(f.d, Tail(reads),
                                Append(acc, <<Head(reads)[1], f.r.v>>)))

\* read_struct without the pop after the closure.
read_struct_no_pop(d, reads) == struct_fields(d, reads, <<>>)

\* read_struct with that closure: the closure, then a pop.
read_struct(d, reads) ==
    Let(struct_fields(d, reads, <<>>), LAMBDA b :
        IF ~IsOk(b.r) THEN b
        ELSE Let(pop(b.d), LAMBDA p :
                 IF ~IsOk(p.r) THEN p ELSE Done(p.d, b.r)))

-----------------------------------------------------------------------------
(* The driving program.  pc is the call that comes next:                   *)
(*   "new"      Decoder::new on the document `input`                       *)
(*   "ready"    the decoder is built; parse (or a typed decode) is next    *)
(*   "done"     the parse returned `result`                                *)
(*   "value"    a value `value` is about to be encoded                     *)
(*   "encoded"  the encoder wrote `wr`; Decoder::new on that text is next  *)
(*   "ready2", "done2"   as "ready", "done", for the encoder's text        *)

\* How many times the scanner model advances at end of input.
MaxEofBumps == 2

TheDecoder ==
    [rdr |-> rdr, ch |-> ch, line |-> line, col |-> col,
     parsed |-> parsed, stack |-> stack]

SetDecoder(d) ==
    /\ rdr' = d.rdr
    /\ ch' = d.ch
    /\ line' = d.line
    /\ col' = d.col
    /\ parsed' = d.parsed
    /\ stack' = d.stack

SetEncoder(e) ==
    /\ wr' = e.wr
    /\ spaces' = e.spaces
    /\ indent' = e.indent

\* The state before any decoder or encoder is built.
InitBlank ==
    /\ rdr = <<>>
    /\ ch = 0
    /\ line = 1
    /\ col = 0
    /\ parsed = FALSE
    /\ stack = <<>>
    /\ result = NoResult
    /\ wr = <<>>
    /\ spaces = 0
    /\ indent = 0

\* The text the next decoder reads: the document, or the encoder's output.
DecoderText == IF pc = "new" THEN input ELSE wr

\* Decoder::new(text.chars())
DecoderNew ==
    /\ pc \in {"new", "encoded"}
    /\ SetDecoder(Decoder_new(DecoderText))
    /\ pc' = IF pc = "new" THEN "ready" ELSE "ready2"
    /\ UNCHANGED <<input, result, value, encoderVars>>

\* Decoder::parse
Parse ==
    /\ pc \in {"ready", "ready2"}
    /\ LET p == parse(TheDecoder)
       IN  /\ SetDecoder(p.d)
           /\ result' = p.r
    /\ pc' = IF pc = "ready" THEN "done" ELSE "done2"
    /\ UNCHANGED <<input, value, encoderVars>>

\* The spaces of Encoder::new and of Encoder::new_pretty.
EncoderModes == {Encoder_new.spaces, Encoder_new_pretty.spaces}

\* Json::to_writer / to_pretty_writer: a new Encoder with sp spaces, and
\* the encoding of the value (the value just parsed, or the given one).
Encode(sp) ==
    /\ pc \in {"done", "value"}
    /\ pc = "done" => IsOk(result)
    /\ value' = IF pc = "done" THEN result.v ELSE value
    /\ SetEncoder(encode(Encoder(<<>>, sp, 0), value'))
    /\ pc' = "encoded"
    /\ UNCHANGED <<input, result, decoderVars>>

\* Decoder::bump, called on its own.
Bump ==
    /\ pc = "ready"
    /\ col <= Len(input) + MaxEofBumps
    /\ SetDecoder(bump(TheDecoder))
    /\ UNCHANGED <<input, result, value, encoderVars, pc>>

NextParse == DecoderNew \/ Parse

NextRound == DecoderNew \/ Parse \/ \E sp \in EncoderModes : Encode(sp)

NextScan == DecoderNew \/ Bump

-----------------------------------------------------------------------------
(* Documents *)

\* The texts made of at most n pieces of P, one after the other.
Texts(P, n) == {Concat(f) : f \in UNION {[1..k -> P] : k \in 0..n}}

\* The state before Decoder::new on a document of the set T.
InitText(T) ==
    /\ InitBlank
    /\ input \in T
    /\ value = Null
    /\ pc = "new"

-----------------------------------------------------------------------------
(* The scanner alone: Decoder::new, then bumps *)

MaxScanLen == 4

ScanPieces == {Str(<<"a">>), Str(<<"LF">>), Str(<<" ">>)}

InitScan == InitText(Texts(ScanPieces, MaxScanLen))

SpecScan == InitScan /\ [][NextScan]_vars

\* The number of characters pulled from the iterator so far.
Consumed == Len(input) - Len(rdr)

\* The first n characters of s, or all of s when it has fewer.
Prefix(s, n) == SubSeq(s, 1, IF n < Len(s) THEN n ELSE Len(s))

NewlinesIn(s) == Cardinality({i \in 1..Len(s) : s[i] = C("LF")})

\* C8 (state part): once the decoder is built, line is 1 plus the number
\* of newlines among the characters advanced onto, and the current
\* character is the last one advanced onto (end of input after them all).
C8_LineCountsNewlines ==
    pc = "ready" =>
        /\ Consumed >= 1 \/ input = <<>>
        /\ line = 1 + NewlinesIn(SubSeq(input, 1, Consumed))
        /\ ch \in {EOF} \cup {input[i] : i \in {Consumed} \cap DOMAIN input}
        /\ ch = EOF => rdr = <<>>

\* C8 (step part): the decoder is built at line 1 with one advance from
\* column 0; every advance sets col to 1 when the new current character is
\* a newline and adds exactly 1 to col otherwise.
C8_AdvanceSetsColumn ==
    /\ pc = "new" =>
          /\ line' = 1 + NewlinesIn(Prefix(input, 1))
          /\ col' = 1
          /\ ch' = IF input = <<>> THEN EOF ELSE input[1]
    /\ pc = "ready" =>
          /\ ch' = C("LF") => col' = 1 /\ line' = line + 1
          /\ ch' # C("LF") => col' = col + 1 /\ line' = line

\* C8: the scanner position invariant.
C8_ScannerPosition == [](C8_LineCountsNewlines) /\ [][C8_AdvanceSetsColumn]_vars

\* C8 witness: two newlines were advanced onto, then one more character.
C8_Witness ==
    /\ pc = "ready"
    /\ line = 3
    /\ col = 2
    /\ ch = C("a")
    /\ Consumed = 4

-----------------------------------------------------------------------------
(* Positions, computed from the document alone *)

\* The index in input of the decoder's current character; Len(input) + 1
\* at end of input.
Here(d) == IF eof(d) THEN Len(input) + 1 ELSE Len(input) - Len(d.rdr)

\* The line after n advances over s: 1 plus the newlines advanced onto.
LineAt(s, n) == 1 + NewlinesIn(Prefix(s, n))

\* The index of the last newline among the first n characters of s, or 0.
LastNewline(s, n) ==
    LET N == {i \in 1..Len(Prefix(s, n)) : s[i] = C("LF")}
    IN  IF N = {} THEN 0 ELSE CHOOSE i \in N : \A j \in N : j <= i

\* The column after n advances over s: the advances since the last newline
\* advanced onto, that one counted.
ColAt(s, n) ==
    IF LastNewline(s, n) = 0 THEN n ELSE n - LastNewline(s, n) + 1

\* The characters JSON calls whitespace.
Whitespace == {C(" "), C("LF"), C("TAB"), C("CR")}

\* The index of the first character of s at or after index from that is
\* not whitespace, or 0 when there is none.
FirstNonWs(s, from) ==
    LET N == {i \in from..Len(s) : s[i] \notin Whitespace}
    IN  IF N = {} THEN 0 ELSE CHOOSE i \in N : \A j \in N : i <= j

\* The parse error with message msg at index k of the document.
ErrorAt(msg, k) == Err(ParseError(msg, LineAt(input, k), ColAt(input, k)))

-----------------------------------------------------------------------------
(* Whole documents: from_str on a value and what follows it *)

MaxDocLen == 3

DocPieces ==
    {Str(<<"n", "u", "l", "l">>), Str(<<"f", "a", "l", "s", "e">>),
     Str(<<"1">>), Str(<<"[">>), Str(<<"]">>), Str(<<"{", "}">>),
     Str(<<"a">>), Str(<<" ">>), Str(<<"LF">>)}

InitDoc == InitText(Texts(DocPieces, MaxDocLen))

SpecDoc == InitDoc /\ [][NextParse]_vars

\* C5: parse succeeds only when the value and the whitespace after it end
\* the input; when a character that is not whitespace remains after the
\* value, parse fails with "trailing characters" at the first such
\* character.
C5_TrailingCharacters ==
    pc = "done" =>
        LET v == parse_value(Decoder_new(input))
            k == FirstNonWs(input, Here(v.d))
        IN  /\ IsOk(result) => IsOk(v.r) /\ k = 0 /\ result = v.r
            /\ IsOk(v.r) /\ k = 0 => result = v.r /\ eof(TheDecoder)
            /\ IsOk(v.r) /\ k # 0 => result = ErrorAt("trailing characters", k)
            /\ input = Str(<<"n", "u", "l", "l", "a">>) =>
                  result = Err(ParseError("trailing characters", 1, 5))
            /\ input = Str(<<"f", "a", "l", "s", "e", "a">>) =>
                  result = Err(ParseError("trailing characters", 1, 6))
            /\ input = Str(<<"1", "a">>) =>
                  result = Err(ParseError("trailing characters", 1, 2))
            /\ input = Str(<<"[", "]", "a">>) =>
                  result = Err(ParseError("trailing characters", 1, 3))
            /\ input = Str(<<"{", "}", "a">>) =>
                  result = Err(ParseError("trailing characters", 1, 3))

\* C5 witness: a value, a newline, then a character that is not whitespace.
C5_Witness ==
    /\ pc = "done"
    /\ input = Str(<<"1", "LF", "a">>)
    /\ result = Err(ParseError("trailing characters", 2, 2))

-----------------------------------------------------------------------------
(* Numbers: from_str on texts of sign, digit, point and exponent characters *)

MaxNumLen == 4

NumPieces ==
    {Str(<<"-">>), Str(<<"0">>), Str(<<"1">>), Str(<<"9">>), Str(<<".">>),
     Str(<<"e">>), Str(<<"E">>), Str(<<"+">>)}

\* Two numbers with every part of the grammar.
NumExamples ==
    {Str(<<"-", "1", ".", "9", "e", "+", "1">>),
     Str(<<"0", ".", "1", "E", "-", "1">>)}

InitNum == InitText(Texts(NumPieces, MaxNumLen) \cup NumExamples)

SpecNum == InitNum /\ [][NextParse]_vars

Digits ==
    {C("0"), C("1"), C("2"), C("3"), C("4"), C("5"), C("6"), C("7"), C("8"),
     C("9")}

AllDigits(s) == \A i \in 1..Len(s) : s[i] \in Digits

\* A single 0, or a digit 1-9 followed by any digits.
IsIntPart(s) ==
    \/ s = <<C("0")>>
    \/ s # <<>> /\ s[1] \in Digits \ {C("0")} /\ AllDigits(s)

\* Nothing, or '.' and at least one digit.
IsFracPart(s) ==
    \/ s = <<>>
    \/ Len(s) >= 2 /\ s[1] = C(".") /\ AllDigits(Tail(s))

Signs == {<<>>, <<C("+")>>, <<C("-")>>}

\* 'e' or 'E' and an optional sign.
IsExpMark(s) == \E m \in {C("e"), C("E")}, g \in Signs : s = <<m>> \o g

\* Nothing, or 'e' or 'E', an optional sign and at least one digit.
IsExpPart(s) ==
    \/ s = <<>>
    \/ \E k \in 1..Len(s) - 1 :
          /\ IsExpMark(SubSeq(s, 1, k))
          /\ AllDigits(SubSeq(s, k + 1, Len(s)))

\* s without its leading '-', when it has one.
Unsigned(s) == IF s # <<>> /\ s[1] = C("-") THEN Tail(s) ELSE s

\* s is an integer part, then a fraction part that ends at index j.
IsIntFrac(s, j) ==
    \E i \in 1..j : IsIntPart(SubSeq(s, 1, i)) /\ IsFracPart(SubSeq(s, i + 1, j))

\* The tokens of the number grammar.
IsNumberToken(s) ==
    \E j \in 1..Len(Unsigned(s)) :
        /\ IsIntFrac(Unsigned(s), j)
        /\ IsExpPart(SubSeq(Unsigned(s), j + 1, Len(Unsigned(s))))

\* The character of s at index k, EOF after the last one.
CharAt(s, k) == IF k \in DOMAIN s THEN s[k] ELSE EOF

\* The number that starts s deviates from the grammar at index k: the
\* characters before k are at most a sign with no digit after it, a 0 with
\* a digit after it, an integer part and '.' with no digit after it, or an
\* exponent mark with neither digit nor (when it has no sign yet) sign
\* after it.
NumberBreaksAt(s, k) ==
    LET b == Unsigned(SubSeq(s, 1, k - 1))
        next == CharAt(s, k)
    IN  \/ b = <<>> /\ next \notin Digits /\ ~(k = 1 /\ next = C("-"))
        \/ b = <<C("0")>> /\ next \in Digits
        \/ /\ b # <<>>
           /\ IsIntPart(SubSeq(b, 1, Len(b) - 1))
           /\ b[Len(b)] = C(".")
           /\ next \notin Digits
        \/ \E j \in 1..Len(b) - 1 :
              /\ IsIntFrac(b, j)
              /\ IsExpMark(SubSeq(b, j + 1, Len(b)))
              /\ next \notin Digits
              /\ Len(b) = j + 1 => next \notin {C("+"), C("-")}

StartsNumber(s) == s # <<>> /\ s[1] \in Digits \cup {C("-")}

IsError(r, msg) == IsErr(r) /\ r.v.msg = msg

\* C6: a text that starts with '-' or a digit parses to a Number exactly
\* when it is a token of the number grammar; where the number deviates from
\* the grammar the result is "invalid number" at that character, and any
\* other text that is no token leaves characters after a number.
C6_NumberGrammar ==
    pc = "done" /\ StartsNumber(input) =>
        /\ IsOk(result) <=> IsNumberToken(input)
        /\ IsOk(result) => result.v.t = "Number"
        /\ \A k \in 1..Len(input) + 1 :
              NumberBreaksAt(input, k) =>
                  result = Err(ParseError("invalid number", 1, k))
        /\ (~IsNumberToken(input)
            /\ \A k \in 1..Len(input) + 1 : ~NumberBreaksAt(input, k)) =>
                  IsError(result, "trailing characters")
        /\ input \in {Str(<<"-">>), Str(<<"0", "0">>), Str(<<"1", ".">>),
                      Str(<<"1", "e">>), Str(<<"1", "e", "+">>)} =>
              IsError(result, "invalid number")

\* C6 witness: a number with a sign, a fraction and a signed exponent.
C6_Witness ==
    /\ pc = "done"
    /\ input = Str(<<"-", "1", ".", "9", "e", "+", "1">>)
    /\ result = Ok(Number(Fin(-19, 0)))

-----------------------------------------------------------------------------
(* Syntax errors: from_str on texts of structural characters *)

MaxSyntaxLen == 4

SyntaxPieces ==
    {Str(<<"1">>), Str(<<"[">>), Str(<<"]">>), Str(<<",">>), Str(<<"{">>),
     Str(<<"}">>), Str(<<":">>), Str(<<"QUOTE", "a", "QUOTE">>),
     Str(<<"LF">>), Str(<<"n">>)}

\* {\n  "foo":\n "bar"
MultilineExample ==
    Str(<<"{", "LF", " ", " ", "QUOTE", "f", "o", "o", "QUOTE", ":", "LF",
          " ", "QUOTE", "b", "a", "r", "QUOTE">>)

SyntaxExamples ==
    {Str(<<"0", "0">>), Str(<<"1", ".">>), Str(<<"1", "e">>),
     Str(<<"{", "1", ":", "2", "}">>), MultilineExample,
     Str(<<"QUOTE", "a", "LF", "b">>),
     Str(<<"[", "LF", "QUOTE", "BSL", "x", "QUOTE", "]">>),
     Str(<<"[", "1", "LF", "LF", "t", "r", "u", "z">>)}

InitSyntax == InitText(Texts(SyntaxPieces, MaxSyntaxLen) \cup SyntaxExamples)

SpecSyntax == InitSyntax /\ [][NextParse]_vars

\* C7: a parse error carries the scanner's line and column, and these are
\* the line and column of the character (or end of input) the scanner
\* stands on when the error is found.
C7_ErrorPosition ==
    pc = "done" /\ IsErr(result) =>
        /\ result.v.kind = "ParseError"
        /\ result.v.line = line
        /\ result.v.col = col
        /\ line = LineAt(input, Here(TheDecoder))
        /\ col = ColAt(input, Here(TheDecoder))
        /\ input = Str(<<"0", "0">>) =>
              result = Err(ParseError("invalid number", 1, 2))
        /\ input \in {Str(<<"1", ".">>), Str(<<"1", "e">>)} =>
              result = Err(ParseError("invalid number", 1, 3))
        /\ input = Str(<<"[", "1", ",", "]">>) =>
              result = Err(ParseError("invalid syntax", 1, 4))
        /\ input = Str(<<"{", "1", ":", "2", "}">>) =>
              result = Err(ParseError("key must be a string", 1, 2))
        /\ input = MultilineExample =>
              result = Err(ParseError("EOF while parsing object", 3, 8))

\* C7 witness: the error at the end of the three-line document.
C7_Witness ==
    /\ pc = "done"
    /\ input = MultilineExample
    /\ result = Err(ParseError("EOF while parsing object", 3, 8))
    /\ Here(TheDecoder) = Len(input) + 1

-----------------------------------------------------------------------------
(* Literals: from_str on texts of pieces of null, true and false *)

MaxIdentLen == 3

IdentPieces ==
    {Str(<<"n">>), Str(<<"u">>), Str(<<"l">>), Str(<<"u", "l">>),
     Str(<<"u", "l", "l">>), Str(<<"t">>), Str(<<"r">>), Str(<<"r", "u">>),
     Str(<<"r", "u", "e">>), Str(<<"f">>), Str(<<"a">>), Str(<<"a", "l">>),
     Str(<<"a", "l", "s", "e">>), Str(<<"z">>), Str(<<" ">>)}

InitIdent == InitText(Texts(IdentPieces, MaxIdentLen))

SpecIdent == InitIdent /\ [][NextParse]_vars

\* The three literals and their values.
Literals ==
    {<<Str(<<"n", "u", "l", "l">>), Null>>,
     <<Str(<<"t", "r", "u", "e">>), Boolean(TRUE)>>,
     <<Str(<<"f", "a", "l", "s", "e">>), Boolean(FALSE)>>}

\* The first index at which s differs from the word w: an index of w where
\* s holds another character or has ended; 0 when s starts with w.
FirstMismatch(s, w) ==
    LET N == {i \in 1..Len(w) : CharAt(s, i) # w[i]}
    IN  IF N = {} THEN 0 ELSE CHOOSE i \in N : \A j \in N : i <= j

\* C9: a text whose first character starts a literal yields the literal's
\* value exactly when the characters after it spell the rest of the
\* literal (the text then parses to the value, or has trailing characters
\* after it); otherwise the result is "invalid syntax" at the first
\* character that differs, or at the end of the input.
C9_Literals ==
    pc = "done" =>
        /\ \A l \in Literals :
              input # <<>> /\ input[1] = l[1][1] =>
                  LET k == FirstMismatch(input, l[1])
                      rest == FirstNonWs(input, Len(l[1]) + 1)
                  IN  /\ k = 0 /\ rest = 0 => result = Ok(l[2])
                      /\ k = 0 /\ rest # 0 =>
                            result = ErrorAt("trailing characters", rest)
                      /\ k # 0 =>
                            result = Err(ParseError("invalid syntax", 1, k))
                      /\ result = Ok(l[2]) => k = 0
        /\ input = Str(<<"n">>) =>
              result = Err(ParseError("invalid syntax", 1, 2))
        /\ input = Str(<<"n", "u", "l">>) =>
              result = Err(ParseError("invalid syntax", 1, 4))
        /\ input = Str(<<"t", "r", "u", "z">>) =>
              result = Err(ParseError("invalid syntax", 1, 4))
        /\ input = Str(<<"f", "a", "z">>) =>
              result = Err(ParseError("invalid syntax", 1, 3))

\* C9 witness: false with its last letter missing, then another letter.
C9_Witness ==
    /\ pc = "done"
    /\ input = Str(<<"f", "a", "l", "z">>)
    /\ result = Err(ParseError("invalid syntax", 1, 4))

-----------------------------------------------------------------------------
(* Strings: from_str on an opening quote and pieces of a string body *)

MaxStrLen == 4

StrPieces ==
    {Str(<<"QUOTE">>), Str(<<"BSL">>), Str(<<"a">>), Str(<<"n">>),
     Str(<<"x">>), Str(<<"BSL", "u">>), Str(<<"1", "2">>),
     Str(<<"a", "B">>), Str(<<"D", "8">>), Str(<<"0", "0">>)}

\* "\"\\\/\b\f\n\r\t", and a body with control characters.
StrExamples ==
    {Str(<<"QUOTE", "BSL", "QUOTE", "BSL", "BSL", "BSL", "/", "BSL", "b",
           "BSL", "f", "BSL", "n", "BSL", "r", "BSL", "t", "QUOTE">>),
     Str(<<"QUOTE", "LF", "TAB", "SOH", "/", "QUOTE">>)}

InitStr ==
    InitText({<<C("QUOTE")>> \o s : s \in Texts(StrPieces, MaxStrLen)}
             \cup StrExamples)

SpecStr == InitStr /\ [][NextParse]_vars

HexDigits ==
    Digits \cup {C("a"), C("b"), C("c"), C("d"), C("e"), C("f"),
                 C("A"), C("B"), C("C"), C("D"), C("E"), C("F")}

\* The value of a hexadecimal digit.
HexDigit(c) ==
    CASE c \in Digits -> c - C("0")
      [] c \in {C("a"), C("A")} -> 10
      [] c \in {C("b"), C("B")} -> 11
      [] c \in {C("c"), C("C")} -> 12
      [] c \in {C("d"), C("D")} -> 13
      [] c \in {C("e"), C("E")} -> 14
      [] c \in {C("f"), C("F")} -> 15

\* The code point the four hexadecimal digits of s from index k denote.
CodePoint(s, k) ==
    HexDigit(s[k]) * 4096 + HexDigit(s[k + 1]) * 256
        + HexDigit(s[k + 2]) * 16 + HexDigit(s[k + 3])

\* The letters of the simple escapes and the characters they stand for.
Escapes ==
    {<<C("QUOTE"), C("QUOTE")>>, <<C("BSL"), C("BSL")>>, <<C("/"), C("/")>>,
     <<C("b"), C("BS")>>, <<C("f"), C("FF")>>, <<C("n"), C("LF")>>,
     <<C("r"), C("CR")>>, <<C("t"), C("TAB")>>}

Escaped(c) == (CHOOSE p \in Escapes : p[1] = c)[2]

StrEnd(res, k) == [k |-> "end", res |-> res, next |-> k]
StrError(msg) == [k |-> "error", msg |-> msg]

\* What the string grammar makes of the body of s from index k on, with
\* res the characters appended so far: the string and the index after its
\* closing quote, or the kind of error.
RECURSIVE StringBody(_, _, _)
StringBody(s, k, res) ==
    IF CharAt(s, k) = EOF THEN StrError("EOF while parsing string")
    ELSE IF CharAt(s, k) = C("QUOTE") THEN StrEnd(res, k + 1)
    ELSE IF CharAt(s, k) # C("BSL")
        THEN StringBody(s, k + 1, Append(res, s[k]))
    ELSE IF CharAt(s, k + 1) = EOF THEN StrError("EOF while parsing string")
    ELSE IF \E p \in Escapes : p[1] = CharAt(s, k + 1)
        THEN StringBody(s, k + 2, Append(res, Escaped(s[k + 1])))
    ELSE IF CharAt(s, k + 1) # C("u") THEN StrError("invalid escape")
    ELSE IF \A j \in 2..5 : CharAt(s, k + j) \in HexDigits
        THEN StringBody(s, k + 6, Append(res, CodePoint(s, k + 2)))
    ELSE StrError("invalid \\u escape")

UEscapeErrors ==
    {"invalid \\u escape (unrecognized hex)",
     "invalid \\u escape (not four digits)"}

\* The result agrees with what the string grammar makes of the document.
AgreesWithStringBody ==
    LET b == StringBody(input, 2, <<>>)
    IN  /\ b.k = "end" /\ FirstNonWs(input, b.next) = 0 =>
              result = Ok(String(b.res))
        /\ b.k = "end" /\ FirstNonWs(input, b.next) # 0 =>
              IsError(result, "trailing characters")
        /\ b.k = "error" /\ b.msg = "invalid \\u escape" =>
              IsErr(result) /\ result.v.msg \in UEscapeErrors
        /\ b.k = "error" /\ b.msg # "invalid \\u escape" =>
              IsError(result, b.msg)

\* C10: a document that starts with a quote is read by the string grammar:
\* simple escapes, \u and four hexadecimal digits, verbatim characters, the
\* closing quote, and the three kinds of error.
C10_StringEscapes == pc = "done" /\ input[1] = C("QUOTE") => AgreesWithStringBody

\* The document holds \u and four hexadecimal digits that denote a
\* surrogate code point.
HasSurrogateEscape ==
    \E k \in 2..Len(input) - 5 :
        /\ input[k] = C("BSL") /\ input[k + 1] = C("u")
        /\ \A j \in 2..5 : input[k + j] \in HexDigits
        /\ CodePoint(input, k + 2) \in 55296..57343

\* C10 without the escapes that denote a surrogate code point.
C10_ExceptSurrogates ==
    pc = "done" /\ input[1] = C("QUOTE") /\ ~HasSurrogateEscape =>
        AgreesWithStringBody

\* C10 witness: an escape of four hexadecimal digits in both cases.
C10_Witness ==
    /\ pc = "done"
    /\ input = Str(<<"QUOTE", "BSL", "u", "1", "2", "a", "B", "QUOTE">>)
    /\ result = Ok(String(<<4779>>))

-----------------------------------------------------------------------------
(* Strings below U+0080: encoded, then parsed back *)

\* The state before a value of the set V is encoded.
InitValue(V) ==
    /\ InitBlank
    /\ input = <<>>
    /\ value \in V
    /\ pc = "value"

MaxAsciiLen == 3

\* Quote, backslash, the five control characters escape_str escapes, two
\* it does not, and three other characters.
AsciiPieces ==
    {Str(<<"QUOTE">>), Str(<<"BSL">>), Str(<<"BS">>), Str(<<"FF">>),
     Str(<<"LF">>), Str(<<"CR">>), Str(<<"TAB">>), Str(<<"NUL">>),
     Str(<<"SOH">>), Str(<<"a">>), Str(<<"/">>), Str(<<"u">>)}

\* Every character below U+0080, as a string of its own.
AsciiChars == {<<c>> : c \in 0..127}

InitAscii ==
    InitValue({String(s) : s \in Texts(AsciiPieces, MaxAsciiLen) \cup AsciiChars})

SpecAscii == InitAscii /\ [][NextRound]_vars

\* C4: the text the encoder writes for a String of characters below U+0080
\* parses back to that String.
C4_AsciiRoundTrip ==
    pc = "done2" =>
        /\ value.t = "String"
        /\ \A i \in 1..Len(value.v) : value.v[i] \in 0..127
        /\ result = Ok(value)

\* C4 witness: a quote, a backslash, an escaped and an unescaped control
\* character have been through the round trip.
C4_Witness ==
    /\ pc = "done2"
    /\ \E c \in AsciiPieces :
          value = String(<<C("QUOTE"), C("BSL")>> \o c)
    /\ value.v[3] = C("SOH")
    /\ wr = Str(<<"QUOTE", "BSL", "QUOTE", "BSL", "BSL", "SOH", "QUOTE">>)
    /\ result = Ok(value)

-----------------------------------------------------------------------------
(* The round trip: a document parsed, encoded and parsed again *)

MaxRoundLen == 4

RoundPieces ==
    {Str(<<"{">>), Str(<<"}">>), Str(<<"QUOTE", "a", "QUOTE", ":">>),
     Str(<<"t", "r", "u", "e">>), Str(<<"[">>), Str(<<"]">>), Str(<<",">>),
     Str(<<"1">>), Str(<<"QUOTE", "b", "QUOTE">>)}

\* {"a":true,"b":[{"c":"\f\r"},{"d":""}]}
RoundExample ==
    Str(<<"{", "QUOTE", "a", "QUOTE", ":", "t", "r", "u", "e", ",",
          "QUOTE", "b", "QUOTE", ":", "[",
          "{", "QUOTE", "c", "QUOTE", ":", "QUOTE", "BSL", "f", "BSL", "r",
          "QUOTE", "}", ",",
          "{", "QUOTE", "d", "QUOTE", ":", "QUOTE", "QUOTE", "}",
          "]", "}">>)

InitRound == InitText(Texts(RoundPieces, MaxRoundLen) \cup {RoundExample})

SpecRound == InitRound /\ [][NextRound]_vars

\* C1: the compact encoding of a parsed document parses, and to the value
\* that was encoded.
C1_RoundTrip ==
    pc = "done2" /\ spaces = 0 => IsOk(result) /\ json_eq(result.v, value)

\* v is or holds an Object with an entry.
RECURSIVE HasEntry(_)
HasEntry(v) ==
    CASE v.t = "Object" -> v.v # EmptyMap
      [] v.t = "List" -> \E i \in 1..Len(v.v) : HasEntry(v.v[i])
      [] OTHER -> FALSE

\* C1 for the documents without an object entry.
C1_WithoutEntries ==
    pc = "done2" /\ spaces = 0 /\ ~HasEntry(value) =>
        IsOk(result) /\ json_eq(result.v, value)

\* C1 witness: {"a":true} is encoded as {"\"a\"":true}, and the key comes
\* back with the quotes in it.
C1_Witness ==
    /\ pc = "done2"
    /\ spaces = 0
    /\ input = Str(<<"{", "QUOTE", "a", "QUOTE", ":", "t", "r", "u", "e", "}">>)
    /\ value = Object(Str(<<"a">>) :> Boolean(TRUE))
    /\ wr = Str(<<"{", "QUOTE", "BSL", "QUOTE", "a", "BSL", "QUOTE", "QUOTE",
                  ":", "t", "r", "u", "e", "}">>)
    /\ result = Ok(Object(Str(<<"QUOTE", "a", "QUOTE">>) :> Boolean(TRUE)))

-----------------------------------------------------------------------------
(* Objects with string keys, encoded *)

MaxEntries == 2

ObjectKeys == {Str(<<"a">>), Str(<<"b">>), Str(<<"c", "QUOTE">>)}

ObjectLeaves ==
    {Boolean(TRUE), Number(Fin(1, 0)), String(<<>>), String(Str(<<"FF", "CR">>))}

\* The Objects of at most n entries with these keys and values.
Objects(n) ==
    {Object(m) : m \in UNION {[K -> ObjectLeaves] :
                     K \in {K \in SUBSET ObjectKeys : Cardinality(K) <= n}}}

\* {"b":[{"c":"\f\r"},{"d":""}]}
ComplexObject ==
    Object(Str(<<"b">>) :>
        List(<<Object(Str(<<"c">>) :> String(Str(<<"FF", "CR">>))),
               Object(Str(<<"d">>) :> String(<<>>))>>))

\* An Object, or an Object holding a list of two Objects of one entry.
ObjectValues ==
    Objects(MaxEntries)
        \cup {ComplexObject}
        \cup {Object(Str(<<"b">>) :> List(<<o, p>>)) :
                 o \in Objects(1) \ {Object(EmptyMap)}, p \in {Object(EmptyMap)}}

InitObject == InitValue(ObjectValues)

SpecObject == InitObject /\ [][NextRound]_vars

RECURSIVE KeyedText(_)
RECURSIVE KeyedEntries(_, _)

\* The entries of m with the keys ks, each the escaped key, ':' and the
\* text of the value, with ',' between them.
KeyedEntries(m, ks) ==
    IF ks = <<>> THEN <<>>
    ELSE (escape_str(Head(ks)) \o <<C(":")>> \o KeyedText(m[Head(ks)]))
             \o (IF Tail(ks) = <<>> THEN <<>> ELSE <<C(",")>>)
             \o KeyedEntries(m, Tail(ks))

\* The compact text of v in which the token of a key k is escape_str(k).
KeyedText(v) ==
    CASE v.t = "Object" ->
             <<C("{")>> \o KeyedEntries(v.v, SortedKeys(DOMAIN v.v)) \o <<C("}")>>
      [] v.t = "List" ->
             <<C("[")>>
                 \o Concat([i \in 1..Len(v.v) |->
                        (IF i = 1 THEN <<>> ELSE <<C(",")>>) \o KeyedText(v.v[i])])
                 \o <<C("]")>>
      [] OTHER -> to_str(v)

\* C2: in the compact encoding of an Object the token of each key k is the
\* escaped string of k, once, followed by ':' and the value.
C2_KeyEscapedOnce ==
    pc = "encoded" /\ spaces = 0 =>
        /\ wr = KeyedText(value)
        /\ value = Object(Str(<<"a">>) :> Boolean(TRUE)) =>
              wr = Str(<<"{", "QUOTE", "a", "QUOTE", ":", "t", "r", "u", "e", "}">>)
        /\ value = ComplexObject =>
              wr = Str(<<"{", "QUOTE", "b", "QUOTE", ":", "[",
                         "{", "QUOTE", "c", "QUOTE", ":",
                         "QUOTE", "BSL", "f", "BSL", "r", "QUOTE", "}", ",",
                         "{", "QUOTE", "d", "QUOTE", ":", "QUOTE", "QUOTE", "}",
                         "]", "}">>)

\* C2 for the Object without entries.
C2_EmptyObject ==
    pc = "encoded" /\ spaces = 0 /\ value = Object(EmptyMap) =>
        wr = KeyedText(value)

\* C2 witness: the key a is written with its quotes escaped inside a second
\* pair of quotes.
C2_Witness ==
    /\ pc = "encoded"
    /\ spaces = 0
    /\ value = Object(Str(<<"a">>) :> Boolean(TRUE))
    /\ wr = Str(<<"{", "QUOTE", "BSL", "QUOTE", "a", "BSL", "QUOTE", "QUOTE",
                  ":", "t", "r", "u", "e", "}">>)

-----------------------------------------------------------------------------
(* A HashMap<uint, bool>: encoded, parsed, and decoded into the map type *)

MaxMapKey == 2

MaxMapLen == 2

\* The keys 0..MaxMapKey, and two keys of more than one digit.
MapKeys == 0..MaxMapKey \cup {12, 1000000}

\* The maps of at most MaxMapLen entries: functions from keys to bool.
HashMaps ==
    UNION {[K -> BOOLEAN] :
              K \in {K \in SUBSET MapKeys : Cardinality(K) <= MaxMapLen}}

\* The orders in which a HashMap may iterate over the keys S.
Orders(S) ==
    {f \in [1..Cardinality(S) -> S] : \A i, j \in DOMAIN f : f[i] = f[j] => i = j}

\* The entries of the map m in the order ord, as the encoder sees them:
\* uint::encode is emit_uint, which is emit_f64(v as f64), the encoding of
\* Number(v as f64); bool::encode is emit_bool, the encoding of Boolean.
HashMapEntries(m, ord) ==
    [i \in DOMAIN ord |-> <<Number(f64_of(ord[i], 0)), Boolean(m[ord[i]])>>]

InitMap ==
    /\ InitBlank
    /\ input = <<>>
    /\ value \in HashMaps
    /\ pc = "map"

\* HashMap::encode on a new Encoder with sp spaces; the map iterates in the
\* order ord.
EncodeMap(sp, ord) ==
    /\ pc = "map"
    /\ SetEncoder(encode_map(Encoder(<<>>, sp, 0), HashMapEntries(value, ord)))
    /\ pc' = "encoded"
    /\ UNCHANGED <<input, result, value, decoderVars>>

\* from_str::<HashMap<uint, bool>> from the decoder built on the text.
DecodeMap ==
    /\ pc = "ready2"
    /\ Let(decode_hashmap(TheDecoder), LAMBDA m :
           /\ SetDecoder(m.d)
           /\ result' = m.r)
    /\ pc' = "decoded"
    /\ UNCHANGED <<input, value, encoderVars>>

NextMap ==
    \/ \E sp \in EncoderModes, ord \in Orders(DOMAIN value) : EncodeMap(sp, ord)
    \/ DecoderNew
    \/ Parse
    \/ DecodeMap

SpecMap == InitMap /\ [][NextMap]_vars

\* The decimal text of a key.
KeyText(k) ==
    CASE k < 10 -> <<C("0") + k>>
      [] k \in 10..99 -> <<C("0") + (k \div 10), C("0") + (k % 10)>>
      [] k = 1000000 -> Str(<<"1", "0", "0", "0", "0", "0", "0">>)

BoolText(b) ==
    IF b THEN Str(<<"t", "r", "u", "e">>) ELSE Str(<<"f", "a", "l", "s", "e">>)

\* The compact object with the entries of m in the order ord, each key a
\* JSON string holding the key's decimal text.
QuotedKeyText(m, ord) ==
    <<C("{")>>
        \o Concat([i \in DOMAIN ord |->
               (IF i = 1 THEN <<>> ELSE <<C(",")>>)
                   \o <<C("QUOTE")>> \o KeyText(ord[i]) \o <<C("QUOTE"), C(":")>>
                   \o BoolText(m[ord[i]])])
        \o <<C("}")>>

\* The Object a document with the entries of m parses to.
QuotedKeyObject(m) ==
    Object([s \in {KeyText(k) : k \in DOMAIN m} |->
               Boolean(m[CHOOSE k \in DOMAIN m : KeyText(k) = s])])

\* C3: the compact encoding of a map with uint keys is the object whose key
\* tokens are strings holding the keys' decimal text; the compact and the
\* pretty encoding parse, to that object; and decoding either into the map
\* type gives the map that was encoded.
C3_NumericKeys ==
    /\ pc = "encoded" /\ spaces = 0 =>
          /\ \E ord \in Orders(DOMAIN value) : wr = QuotedKeyText(value, ord)
          /\ value = (1 :> TRUE) =>
                wr = Str(<<"{", "QUOTE", "1", "QUOTE", ":", "t", "r", "u", "e", "}">>)
    /\ pc = "done2" => result = Ok(QuotedKeyObject(value))
    /\ pc = "decoded" => result = Ok(value)

\* C3 witness: a map of two entries, one with a key of several digits,
\* encoded pretty and decoded.
C3_Witness ==
    /\ pc = "decoded"
    /\ spaces = 2
    /\ value = (1 :> TRUE @@ 1000000 :> FALSE)
    /\ result = Ok(value)

-----------------------------------------------------------------------------
(* What parse hands back *)

\* C11: parse on any document returns a value or a ParseError; it never
\* fails the task.
C11_ParseReturns ==
    pc = "done" =>
        \/ IsOk(result)
        \/ IsErr(result) /\ result.v.kind = "ParseError"

\* C11 for the documents without an escape that denotes a surrogate.
C11_ExceptSurrogates ==
    pc = "done" /\ ~HasSurrogateEscape =>
        \/ IsOk(result)
        \/ IsErr(result) /\ result.v.kind = "ParseError"

\* C11 witness: the string "\uD800" has been parsed, and the unwrap of
\* char::from_u32 failed the task.
C11_Witness ==
    /\ pc = "done"
    /\ input = Str(<<"QUOTE", "BSL", "u", "D", "8", "0", "0", "QUOTE">>)
    /\ result = Failure

-----------------------------------------------------------------------------
(* Lists: from_str on an opening bracket and pieces of a list body *)

MaxListLen == 4

ListPieces ==
    {Str(<<"]">>), Str(<<",">>), Str(<<"7">>), Str(<<"n", "u", "l", "l">>),
     Str(<<"QUOTE", "a", "QUOTE">>), Str(<<" ">>),
     Str(<<"[", "4", ",", " ", "1", "]">>), Str(<<"x">>)}

\* The documents of test_read_list, and a list of four elements.
ListExamples ==
    {Str(<<"[">>), Str(<<"[", "1">>), Str(<<"[", "1", ",">>),
     Str(<<"[", "1", ",", "]">>), Str(<<"[", "6", " ", "7", "]">>),
     Str(<<"[", "]">>), Str(<<"[", " ", "]">>),
     Str(<<"[", "t", "r", "u", "e", "]">>),
     Str(<<"[", " ", "f", "a", "l", "s", "e", " ", "]">>),
     Str(<<"[", "n", "u", "l", "l", "]">>),
     Str(<<"[", "3", ",", " ", "1", "]">>),
     Str(<<"LF", "[", "3", ",", " ", "2", "]", "LF">>),
     Str(<<"[", "2", ",", " ", "[", "4", ",", " ", "1", "]", "]">>),
     Str(<<"[", "7", ",", "LF", "n", "u", "l", "l", " ", ",", "QUOTE", "a",
           "QUOTE", ",", "[", "4", ",", " ", "1", "]", "TAB", "]", " ">>)}

InitList ==
    InitText({<<C("[")>> \o s : s \in Texts(ListPieces, MaxListLen)}
             \cup ListExamples)

SpecList == InitList /\ [][NextParse]_vars

\* Texts of single values, each with the value it denotes.
ListElements ==
    {<<(<<C("0") + n>>), Number(f64_of(n, 0))>> : n \in 0..9}
    \cup {<<Str(<<"n", "u", "l", "l">>), Null>>,
          <<Str(<<"t", "r", "u", "e">>), Boolean(TRUE)>>,
          <<Str(<<"f", "a", "l", "s", "e">>), Boolean(FALSE)>>,
          <<Str(<<"QUOTE", "a", "QUOTE">>), String(Str(<<"a">>))>>,
          <<Str(<<"[", "4", ",", " ", "1", "]">>),
            List(<<Number(f64_of(4, 0)), Number(f64_of(1, 0))>>)>>}

\* The text w stands in s at index k.
StartsWith(s, k, w) ==
    k + Len(w) - 1 <= Len(s) /\ SubSeq(s, k, k + Len(w) - 1) = w

\* The characters that would make a digit part of a longer number.
NumberChars == Digits \cup {C("."), C("e"), C("E")}

\* The elements whose text stands in s at index k as a whole value.
ElementsAt(s, k) ==
    {el \in ListElements :
        /\ StartsWith(s, k, el[1])
        /\ el[2].t = "Number" => CharAt(s, k + 1) \notin NumberChars}

\* The index of the first character of s at or after k that is not
\* whitespace; Len(s) + 1 when there is none.
NonWs(s, k) == IF FirstNonWs(s, k) = 0 THEN Len(s) + 1 ELSE FirstNonWs(s, k)

ListEnd(values, k) == [k |-> "end", values |-> values, next |-> k]
ListError(msg, k) == [k |-> "error", msg |-> msg, at |-> k]
ListOther == [k |-> "other"]

\* What the list grammar makes of s from index k on, where an element is
\* expected and k is not whitespace; values are the elements so far.  It is
\* "other" when what stands at k is not one of ListElements.
RECURSIVE ListShape(_, _, _)
RECURSIVE AfterElement(_, _, _)
ListShape(s, k, values) ==
    IF ElementsAt(s, k) = {} THEN
        IF values # <<>> /\ CharAt(s, k) = C("]")
        THEN ListError("invalid syntax", k)
        ELSE ListOther
    ELSE Let(CHOOSE el \in ElementsAt(s, k) : TRUE, LAMBDA el :
             AfterElement(s, NonWs(s, k + Len(el[1])), Append(values, el[2])))

\* The same after an element, at the index n that is not whitespace.
AfterElement(s, n, values) ==
    IF n > Len(s) THEN ListError("EOF while parsing list", n)
    ELSE IF s[n] = C(",") THEN ListShape(s, NonWs(s, n + 1), values)
    ELSE IF s[n] = C("]") THEN ListEnd(values, n + 1)
    ELSE ListError("expected ',' or ']'", n)

\* The list a document that starts with [ holds.
ListOf(s) ==
    IF CharAt(s, NonWs(s, 2)) = C("]") THEN ListEnd(<<>>, NonWs(s, 2) + 1)
    ELSE ListShape(s, NonWs(s, 2), <<>>)


\* C12: a document that starts with [ is read by the list grammar: [ and
\* whitespace, then ] for the empty list, or elements separated by , and
\* closed by ]; the List holds the elements in the order of the document.
\* After an element, anything but , or ] is "expected ',' or ']'" at that
\* character and the end of the input is "EOF while parsing list"; a ]
\* right after a , is "invalid syntax" at the ].
C12_Lists ==
    pc = "done" /\ input # <<>> /\ input[1] = C("[") =>
        LET l == ListOf(input)
        IN  /\ l.k = "end" /\ FirstNonWs(input, l.next) = 0 =>
                  result = Ok(List(l.values))
            /\ l.k = "end" /\ FirstNonWs(input, l.next) # 0 =>
                  result = ErrorAt("trailing characters",
                                   FirstNonWs(input, l.next))
            /\ l.k = "error" => result = ErrorAt(l.msg, l.at)
            /\ IsOk(result) => l.k # "error"
            /\ input = Str(<<"[", "1", ",", "]">>) =>
                  result = Err(ParseError("invalid syntax", 1, 4))
            /\ input = Str(<<"[", "6", " ", "7", "]">>) =>
                  result = Err(ParseError("expected ',' or ']'", 1, 4))
            /\ input = Str(<<"[", "1">>) =>
                  result = Err(ParseError("EOF while parsing list", 1, 3))
            /\ input = Str(<<"[", "2", ",", " ", "[", "4", ",", " ", "1",
                             "]", "]">>) =>
                  result = Ok(List(<<Number(f64_of(2, 0)),
                                     List(<<Number(f64_of(4, 0)),
                                            Number(f64_of(1, 0))>>)>>))

\* C12 witness: a list of four elements of four kinds, with whitespace
\* around them, parsed in order.
C12_Witness ==
    /\ pc = "done"
    /\ Len(input) = 23
    /\ input[1] = C("[")
    /\ result = Ok(List(<<Number(f64_of(7, 0)), Null, String(Str(<<"a">>)),
                          List(<<Number(f64_of(4, 0)),
                                 Number(f64_of(1, 0))>>)>>))

-----------------------------------------------------------------------------
(* Objects whose keys repeat: from_str on {"k":v,...,"k":v} *)

MaxDupEntries == 3

DupKeys == {Str(<<"a">>), Str(<<"b">>)}

DupDigits == {C("1"), C("2"), C("3")}

\* The sequences of at most n entries, each a key and the digit of its
\* value.
EntrySeqs(n) == UNION {[1..k -> DupKeys \X DupDigits] : k \in 0..n}

\* "k":v
EntryText(en) == <<C("QUOTE")>> \o en[1] \o <<C("QUOTE"), C(":"), en[2]>>

\* The entries of es from the i-th on, each after the first with a comma
\* before it.
RECURSIVE EntriesText(_, _)
EntriesText(es, i) ==
    IF i > Len(es) THEN <<>>
    ELSE (IF i > 1 THEN <<C(",")>> ELSE <<>>) \o EntryText(es[i])
             \o EntriesText(es, i + 1)

ObjectText(es) == <<C("{")>> \o EntriesText(es, 1) \o <<C("}")>>

\* { "a" : [1], "b":null, "a":{"a":2,"a":3} }
DupExample ==
    Str(<<"{", " ", "QUOTE", "a", "QUOTE", " ", ":", " ", "[", "1", "]", ",",
          " ", "QUOTE", "b", "QUOTE", ":", "n", "u", "l", "l", ",", " ",
          "QUOTE", "a", "QUOTE", ":", "{", "QUOTE", "a", "QUOTE", ":", "2",
          ",", "QUOTE", "a", "QUOTE", ":", "3", "}", " ", "}">>)

InitDup ==
    InitText({ObjectText(es) : es \in EntrySeqs(MaxDupEntries)}
             \cup {DupExample})

SpecDup == InitDup /\ [][NextParse]_vars

\* An ObjectText read back from its characters: an entry takes five
\* characters, and a comma or a brace stands between two of them.
EntryCount(s) == (Len(s) - 1) \div 6
KeyOf(s, i) == <<s[6 * (i - 1) + 3]>>
ValueOf(s, i) == Number(f64_of(s[6 * (i - 1) + 6] - C("0"), 0))

\* The index of the last entry of s with the key k.
LastOccurrence(s, k) ==
    CHOOSE i \in 1..EntryCount(s) :
        /\ KeyOf(s, i) = k
        /\ \A j \in 1..EntryCount(s) : KeyOf(s, j) = k => j <= i

\* One entry for each key of s, with the value of the key's last entry.
LastWins(s) ==
    [k \in {KeyOf(s, i) : i \in 1..EntryCount(s)} |->
        ValueOf(s, LastOccurrence(s, k))]

\* C13: when a key stands more than once in an object literal, the Object
\* has one entry for it, with the value of its last occurrence; the other
\* keys keep their values.
C13_LastKeyWins ==
    pc = "done" =>
        /\ input # DupExample => result = Ok(Object(LastWins(input)))
        /\ input = DupExample =>
              result = Ok(Object(
                  Str(<<"a">>) :> Object(Str(<<"a">>) :> Number(f64_of(3, 0)))
                  @@ Str(<<"b">>) :> Null))

\* C13 witness: a is given 1 and then 3, with b between them.
C13_Witness ==
    /\ pc = "done"
    /\ input = ObjectText(<<<<Str(<<"a">>), C("1")>>, <<Str(<<"b">>), C("2")>>,
                            <<Str(<<"a">>), C("3")>>>>)
    /\ result = Ok(Object(Str(<<"a">>) :> Number(f64_of(3, 0))
                          @@ Str(<<"b">>) :> Number(f64_of(2, 0))))

-----------------------------------------------------------------------------
(* Objects cut short: from_str on an opening brace and pieces of a body *)

MaxBodyLen == 5

BodyPieces ==
    {Str(<<"QUOTE", "a", "QUOTE">>), Str(<<":">>), Str(<<",">>),
     Str(<<"}">>), Str(<<"1">>), Str(<<" ">>)}

\* Documents of test_read_object, one that ends after a comma and a
\* newline, and one with a list where the second key should be.
BodyExamples ==
    {Str(<<"{", "1">>), Str(<<"{", " ", "QUOTE", "a", "QUOTE">>),
     Str(<<"{", "QUOTE", "a", "QUOTE", " ", "1">>),
     Str(<<"{", "QUOTE", "a", "QUOTE", ":", "1", " ", "1">>),
     Str(<<"{", "QUOTE", "a", "QUOTE", ":", "n", "u", "l", "l", ",", "LF">>),
     Str(<<"{", "QUOTE", "a", "QUOTE", " ", ":", " ", "[", "4", ",", " ", "1",
           "]", " ", ",", " ", "[", "4", ",", " ", "1", "]">>),
     Str(<<"{", " ", "QUOTE", "a", "QUOTE", ":", " ", "n", "u", "l", "l", ",",
           " ", "QUOTE", "a", "QUOTE", " ", ":", " ", "t", "r", "u", "e", " ",
           "}">>)}

InitBody ==
    InitText({<<C("{")>> \o s : s \in Texts(BodyPieces, MaxBodyLen)}
             \cup BodyExamples)

SpecBody == InitBody /\ [][NextParse]_vars

ObjectEnd(k) == [k |-> "end", next |-> k]
\* ws: the error is the end of the input after a comma and whitespace.
ObjectError(msg, k, ws) == [k |-> "error", msg |-> msg, at |-> k, ws |-> ws]
ObjectOther == [k |-> "other"]

\* What the object grammar makes of s where a key is expected: k is the
\* first index at or after from that is not whitespace, and comma tells
\* that a comma stands before from.  It is "other" when the key is not
\* "a" or the value is not one of ListElements.
RECURSIVE KeyExpected(_, _, _, _)
RECURSIVE ColonExpected(_, _)
RECURSIVE ValueExpected(_, _)
RECURSIVE CommaExpected(_, _)
KeyExpected(s, from, k, comma) ==
    IF k > Len(s)
    THEN ObjectError("EOF while parsing object", k, comma /\ k > from)
    ELSE IF s[k] # C("QUOTE")
    THEN ObjectError("key must be a string", k, FALSE)
    ELSE IF ~StartsWith(s, k, Str(<<"QUOTE", "a", "QUOTE">>)) THEN ObjectOther
    ELSE ColonExpected(s, NonWs(s, k + 3))

\* The same after a key, at the index k that is not whitespace.
ColonExpected(s, k) ==
    IF k > Len(s) THEN ObjectError("EOF while parsing object", k, FALSE)
    ELSE IF s[k] # C(":") THEN ObjectError("expected ':'", k, FALSE)
    ELSE ValueExpected(s, NonWs(s, k + 1))

\* The same after the colon.
ValueExpected(s, k) ==
    IF ElementsAt(s, k) = {} THEN ObjectOther
    ELSE Let(CHOOSE el \in ElementsAt(s, k) : TRUE, LAMBDA el :
             CommaExpected(s, NonWs(s, k + Len(el[1]))))

\* The same after a value.
CommaExpected(s, k) ==
    IF k > Len(s) THEN ObjectError("EOF while parsing object", k, FALSE)
    ELSE IF s[k] = C(",") THEN KeyExpected(s, k + 1, NonWs(s, k + 1), TRUE)
    ELSE IF s[k] = C("}") THEN ObjectEnd(k + 1)
    ELSE ObjectError("expected ',' or '}'", k, FALSE)

\* What the object grammar makes of a document that starts with {.
ObjectOf(s) ==
    IF CharAt(s, NonWs(s, 2)) = C("}") THEN ObjectEnd(NonWs(s, 2) + 1)
    ELSE KeyExpected(s, 2, NonWs(s, 2), FALSE)

\* C14: where the input ends inside an object (after {, after a key, after
\* a value or after a comma, with or without whitespace) the error is "EOF
\* while parsing object"; what is not a string where a key is expected is
\* "key must be a string", and what is not a colon after a key is
\* "expected ':'"; each at the place the grammar finds it.
C14_ObjectErrors ==
    pc = "done" /\ input[1] = C("{") /\ ObjectOf(input).k = "error" =>
        result = ErrorAt(ObjectOf(input).msg, ObjectOf(input).at)

\* C14 except at the end of the input after a comma and whitespace, where
\* the error is "key must be a string".
C14_ExceptCommaWhitespace ==
    pc = "done" /\ input[1] = C("{") /\ ObjectOf(input).k = "error" =>
        result = ErrorAt(IF ObjectOf(input).ws THEN "key must be a string"
                         ELSE ObjectOf(input).msg,
                         ObjectOf(input).at)

\* C14 witness: the input ends after a comma and a space.
C14_Witness ==
    /\ pc = "done"
    /\ input = Str(<<"{", "QUOTE", "a", "QUOTE", ":", "1", ",", " ">>)
    /\ result = Err(ParseError("key must be a string", 1, 9))

-----------------------------------------------------------------------------
(* The first character of a value: from_str on whitespace and beginnings *)

MaxFirstLen == 3

FirstPieces ==
    {Str(<<"n", "u", "l", "l">>), Str(<<"t">>),
     Str(<<"f", "a", "l", "s", "e">>), Str(<<"1">>), Str(<<"-">>),
     Str(<<"QUOTE", "a", "QUOTE">>), Str(<<"[", "]">>), Str(<<"{", "}">>),
     Str(<<"+">>), Str(<<".">>), Str(<<" ">>), Str(<<"TAB">>), Str(<<"LF">>),
     Str(<<"CR">>), Str(<<"FF">>)}

\* A value of each kind after whitespace of each kind.
FirstExamples ==
    {Str(<<"LF", "TAB", " ", "CR", "t", "r", "u", "e", "CR", "LF">>),
     Str(<<" ", "LF", "-", "1", ".", "9", "e", "+", "1", "TAB">>),
     Str(<<"CR", "[", "4", ",", " ", "1", "]">>),
     Str(<<"TAB", "{", "QUOTE", "a", "QUOTE", ":", "1", "}">>),
     Str(<<"LF", " ", "x">>)}

InitFirst == InitText(Texts(FirstPieces, MaxFirstLen) \cup FirstExamples)

SpecFirst == InitFirst /\ [][NextParse]_vars

\* The characters a value may start with, each with the variant of Json
\* its parser yields and the messages of the errors that parser finds
\* itself (a list or an object holds values of any kind: no message is
\* excluded).
ParserMessages ==
    [literal |-> {"invalid syntax"},
     number |-> {"invalid number"},
     string |-> {"EOF while parsing string", "invalid escape"}
                    \cup UEscapeErrors]

FirstChars ==
    {<<C("n"), "Null", "literal">>, <<C("t"), "Boolean", "literal">>,
     <<C("f"), "Boolean", "literal">>, <<C("-"), "Number", "number">>,
     <<C("QUOTE"), "String", "string">>, <<C("["), "List", "any">>,
     <<C("{"), "Object", "any">>}
    \cup {<<c, "Number", "number">> : c \in Digits}

FirstOf(c) == CHOOSE f \in FirstChars : f[1] = c

\* C15: the first character that is not a space, tab, newline or carriage
\* return decides the parser: n, t, f give a literal, a digit or - a
\* number, a quote a string, [ a list and { an object (the result is a
\* value of that variant, or an error that parser finds past the first
\* character, or trailing characters); any other first character is
\* "invalid syntax" at that character; no such character at all is "EOF
\* while parsing value" at the end of the input.
C15_Dispatch ==
    pc = "done" =>
        LET k == FirstNonWs(input, 1)
        IN  /\ k = 0 =>
                  result = ErrorAt("EOF while parsing value", Len(input) + 1)
            /\ k # 0 /\ (\A f \in FirstChars : f[1] # input[k]) =>
                  result = ErrorAt("invalid syntax", k)
            /\ k # 0 /\ (\E f \in FirstChars : f[1] = input[k]) =>
                  /\ IsOk(result) \/ IsErr(result)
                  /\ IsOk(result) => result.v.t = FirstOf(input[k])[2]
                  /\ IsErr(result) /\ FirstOf(input[k])[3] # "any" =>
                        result.v.msg \in
                            ParserMessages[FirstOf(input[k])[3]]
                                \cup {"trailing characters"}
                  /\ result # ErrorAt("invalid syntax", k)
            /\ input \in {Str(<<"+">>), Str(<<".">>)} =>
                  result = Err(ParseError("invalid syntax", 1, 1))

\* C15 witness: a form feed is not whitespace: after a newline and a space
\* it is where the value should start.
C15_Witness ==
    /\ pc = "done"
    /\ input = Str(<<"LF", " ", "FF">>)
    /\ result = Err(ParseError("invalid syntax", 2, 3))

-----------------------------------------------------------------------------
(* Sequences: a value encoded, and its text decoded as a Vec *)

MaxSeqLen == 2

MaxSeqDepth == 2

SeqLeaves ==
    {Null, Boolean(TRUE), Number(f64_of(1, 0)), String(Str(<<"a">>)),
     List(<<>>), List(<<Number(f64_of(2, 0)), Null>>),
     List(<<List(<<Number(f64_of(3, 0))>>)>>), Object(EmptyMap)}

\* [[3], [1, 2]]
SeqExample ==
    List(<<List(<<Number(f64_of(3, 0))>>),
           List(<<Number(f64_of(1, 0)), Number(f64_of(2, 0))>>)>>)

SeqValues ==
    SeqLeaves \cup {SeqExample}
    \cup {List(xs) : xs \in UNION {[1..n -> SeqLeaves] : n \in 1..MaxSeqLen}}

InitSeq == InitValue(SeqValues)

\* from_str::<Vec<..>> on the encoder's text, after Decoder::new.
DecodeVec(depth, via) ==
    /\ pc = "ready2"
    /\ Let(decode_vec(TheDecoder, depth, via), LAMBDA v :
           SetDecoder(v.d) /\ result' = v.r)
    /\ pc' = "decoded"
    /\ UNCHANGED <<input, value, encoderVars>>

NextSeq ==
    \/ \E sp \in EncoderModes : Encode(sp)
    \/ DecoderNew
    \/ \E depth \in 1..MaxSeqDepth, via \in SeqReads : DecodeVec(depth, via)

SpecSeq == InitSeq /\ [][NextSeq]_vars


\* What reading v as a Vec nested depth deep should give: the elements in
\* the order of the list, each read the same way one level down; the
\* first value that is not a List where one is due is the error.
RECURSIVE InOrder(_, _)
RECURSIVE ElementsInOrder(_, _, _)
InOrder(v, depth) ==
    IF depth = 0 THEN Ok(v)
    ELSE IF v.t # "List" THEN Err(ExpectedError("List", to_str(v)))
    ELSE ElementsInOrder(v.v, <<>>, depth)

ElementsInOrder(xs, acc, depth) ==
    IF xs = <<>> THEN Ok(Vec(acc))
    ELSE Let(InOrder(Head(xs), depth - 1), LAMBDA r :
             IF IsOk(r) THEN ElementsInOrder(Tail(xs), Append(acc, r.v), depth)
             ELSE r)

-----------------------------------------------------------------------------
(* Maps: a document decoded as a TreeMap with ~str keys *)

MaxTreeEntries == 2

TreeKeys == {Str(<<"a">>), Str(<<"b">>)}

\* {"variant":"Frog","fields":["a",3]}
FrogText ==
    Str(<<"{", "QUOTE", "v", "a", "r", "i", "a", "n", "t", "QUOTE", ":",
          "QUOTE", "F", "r", "o", "g", "QUOTE", ",", "QUOTE", "f", "i", "e",
          "l", "d", "s", "QUOTE", ":", "[", "QUOTE", "a", "QUOTE", ",", "3",
          "]", "}">>)

FrogJson ==
    Object(variant_key :> String(Str(<<"F", "r", "o", "g">>))
           @@ fields_key :> List(<<String(Str(<<"a">>)),
                                   Number(f64_of(3, 0))>>))

\* Texts of values, each with the value it denotes.
TreeLeaves ==
    {<<Str(<<"1">>), Number(f64_of(1, 0))>>,
     <<Str(<<"QUOTE", "D", "o", "g", "QUOTE">>), String(Str(<<"D", "o", "g">>))>>,
     <<Str(<<"[", "1", ",", "n", "u", "l", "l", "]">>),
       List(<<Number(f64_of(1, 0)), Null>>)>>,
     <<FrogText, FrogJson>>,
     <<Str(<<"{", "}">>), Object(EmptyMap)>>}

\* The sequences of at most n entries with keys that differ, each a key
\* and a leaf.
TreeEntries(n) ==
    {es \in UNION {[1..k -> TreeKeys \X TreeLeaves] : k \in 0..n} :
        \A i, j \in DOMAIN es : es[i][1] = es[j][1] => i = j}

\* The entries of es from the i-th on as they stand in a document: "k":v,
\* with a comma before each but the first.
RECURSIVE TreeEntriesText(_, _)
TreeEntriesText(es, i) ==
    IF i > Len(es) THEN <<>>
    ELSE (IF i > 1 THEN <<C(",")>> ELSE <<>>)
             \o <<C("QUOTE")>> \o es[i][1] \o <<C("QUOTE"), C(":")>>
             \o es[i][2][1] \o TreeEntriesText(es, i + 1)

\* An object as a document and as a value.
TreeDoc(es) ==
    <<(<<C("{")>> \o TreeEntriesText(es, 1) \o <<C("}")>>),
      Object([k \in {es[i][1] : i \in DOMAIN es} |->
                 es[CHOOSE i \in DOMAIN es : es[i][1] = k][2][2]])>>

TreeDocs == TreeLeaves \cup {TreeDoc(es) : es \in TreeEntries(MaxTreeEntries)}

\* The state before Decoder::new on a document; value is what it denotes.
InitTree ==
    /\ InitBlank
    /\ \E doc \in TreeDocs : input = doc[1] /\ value = doc[2]
    /\ pc = "new"

\* The types of the values of the map.
TreeValueTypes == {"Json", "Animal", "Vec"}

\* from_str::<TreeMap<~str, V>> after Decoder::new.
DecodeTreeMap(V) ==
    /\ pc = "ready"
    /\ Let(decode_treemap(TheDecoder, V), LAMBDA m :
           SetDecoder(m.d) /\ result' = m.r)
    /\ pc' = "decoded"
    /\ UNCHANGED <<input, value, encoderVars>>

NextTree == DecoderNew \/ \E V \in TreeValueTypes : DecodeTreeMap(V)

SpecTree == InitTree /\ [][NextTree]_vars


\* The Json j is the encoding of a Frog: a name and two arguments.
IsFrog(j) ==
    /\ j.t = "Object"
    /\ DOMAIN j.v = {variant_key, fields_key}
    /\ j.v[variant_key] = String(Str(<<"F", "r", "o", "g">>))
    /\ j.v[fields_key].t = "List"
    /\ Len(j.v[fields_key].v) = 2
    /\ j.v[fields_key].v[1].t = "String"
    /\ j.v[fields_key].v[2].t = "Number"
    /\ j.v[fields_key].v[2].v.c = "fin"
    /\ j.v[fields_key].v[2].v.e >= 0

NotOfType == [k |-> "Err", v |-> 0]

\* The Animal the Json j denotes.
AnimalOf(j) ==
    IF j = String(Str(<<"D", "o", "g">>))
    THEN Ok(Variant(Str(<<"D", "o", "g">>), <<>>))
    ELSE IF IsFrog(j)
    THEN Ok(Variant(Str(<<"F", "r", "o", "g">>),
                    <<TStr(j.v[fields_key].v[1].v),
                      TInt(j.v[fields_key].v[2].v.m
                               * Pow10(j.v[fields_key].v[2].v.e))>>))
    ELSE NotOfType

\* The value of type V the Json j denotes.
TypedValue(j, V) ==
    CASE V = "Json" -> Ok(j)
      [] V = "Animal" -> AnimalOf(j)
      [] V = "Vec" -> IF j.t = "List" THEN Ok(Vec(j.v)) ELSE NotOfType

\* C17: read_map on an Object of n entries hands n to the body, and the n
\* pairs of a key read and a value read receive every entry once: the key,
\* and right after it the value of that key, also when reading the value
\* pushes and pops values of its own (a variant with arguments, a list).
\* On a value that is not an Object it fails with ExpectedError("Object").
C17_ReadMap ==
    [][\A V \in TreeValueTypes :
          DecodeTreeMap(V) =>
              /\ value.t = "Object" =>
                    read_map(TheDecoder).r = Ok(Cardinality(DOMAIN value.v))
              /\ value.t # "Object" =>
                    result' = Err(ExpectedError("Object", to_str(value)))
              /\ value.t = "Object"
                     /\ (\A k \in DOMAIN value.v :
                            IsOk(TypedValue(value.v[k], V))) =>
                    /\ IsOk(result')
                    /\ result'.v.t = "Map"
                    /\ Len(result'.v.v) = Cardinality(DOMAIN value.v)
                    /\ {result'.v.v[i] : i \in DOMAIN result'.v.v}
                           = {<<k, TypedValue(value.v[k], V).v>> :
                                  k \in DOMAIN value.v}
                    /\ stack' = <<>>
              /\ value.t = "Object"
                     /\ (\E k \in DOMAIN value.v :
                            ~IsOk(TypedValue(value.v[k], V))) =>
                    IsErr(result')]_vars

\* C17 witness: {"b":"Dog","a":{"variant":"Frog","fields":["a",3]}} has
\* been read as a TreeMap<~str, Animal>.
C17_Witness ==
    /\ pc = "decoded"
    /\ value = Object(Str(<<"a">>) :> FrogJson
                      @@ Str(<<"b">>) :> String(Str(<<"D", "o", "g">>)))
    /\ IsOk(result)
    /\ result.v.t = "Map"
    /\ \E i \in DOMAIN result.v.v :
           result.v.v[i] = <<Str(<<"a">>),
                             Variant(Str(<<"F", "r", "o", "g">>),
                                     <<TStr(Str(<<"a">>)), TInt(3)>>)>>

-----------------------------------------------------------------------------
(* Structs: a document decoded field by field *)

MaxFields == 2

\* The fields a struct's decode asks for, in order: at most n, each a name
\* and a type.
FieldReads(n) ==
    UNION {[1..k -> TreeKeys \X {"Json", "Vec"}] : k \in 0..n}

\* from_str::<S> for a struct S whose decode reads the fields reads.
DecodeStruct(reads) ==
    /\ pc = "ready"
    /\ Let(read_struct(TheDecoder, reads), LAMBDA s :
           SetDecoder(s.d) /\ result' = s.r)
    /\ pc' = "decoded"
    /\ UNCHANGED <<input, value, encoderVars>>

NextStruct == DecoderNew \/ \E reads \in FieldReads(MaxFields) : DecodeStruct(reads)

\* The documents a struct is read from: a number, a list, and the objects
\* whose entries hold these.
StructLeaves == {l \in TreeLeaves : l[2].t \in {"Number", "List"}}

StructDocs ==
    StructLeaves
        \cup {TreeDoc(es) : es \in {x \in TreeEntries(MaxTreeEntries) :
                                       \A i \in DOMAIN x : x[i][2] \in StructLeaves}}

\* The state before Decoder::new on such a document.
InitStruct ==
    /\ InitBlank
    /\ \E doc \in StructDocs : input = doc[1] /\ value = doc[2]
    /\ pc = "new"

SpecStruct == InitStruct /\ [][NextStruct]_vars


\* The i-th read of reads finds no entry in the Object o: o has no such
\* key, or an earlier read took it.
NoEntry(o, reads, i) ==
    \/ reads[i][1] \notin DOMAIN o
    \/ \E j \in 1..(i - 1) : reads[j][1] = reads[i][1]

\* The i-th read of reads finds an entry in o that is not of its type.
WrongType(o, reads, i) ==
    /\ ~NoEntry(o, reads, i)
    /\ ~IsOk(TypedValue(o[reads[i][1]], reads[i][2]))

\* The reads of reads that do not succeed on o.
Unreadable(o, reads) ==
    {i \in DOMAIN reads : NoEntry(o, reads, i) \/ WrongType(o, reads, i)}

FirstUnreadable(o, reads) ==
    CHOOSE i \in Unreadable(o, reads) : \A j \in Unreadable(o, reads) : i <= j

\* C18: read_struct_field(name) with an Object on top of the stack fails
\* with MissingFieldError(name) when the Object has no entry for name;
\* otherwise the body reads that entry's value, and the Object without the
\* entry is on top of the stack afterwards: fields are read in any order,
\* and a field that was read is not there a second time.
C18_ReadStructField ==
    [][\A reads \in FieldReads(MaxFields) :
          DecodeStruct(reads) /\ value.t = "Object" /\ reads # <<>> =>
              /\ LET f == read_struct_field(TheDecoder, reads[1][1],
                                            reads[1][2])
                 IN  /\ NoEntry(value.v, reads, 1) =>
                           f.r = Err(MissingFieldError(reads[1][1]))
                     /\ Unreadable(value.v, reads) \cap {1} = {} =>
                           /\ f.r = Ok(TypedValue(value.v[reads[1][1]],
                                                  reads[1][2]).v)
                           /\ f.d.stack =
                                  <<Object([k \in (DOMAIN value.v)
                                                      \ {reads[1][1]} |->
                                               value.v[k]])>>
              /\ Unreadable(value.v, reads) = {} =>
                    result' = Ok(Struct(
                        [i \in DOMAIN reads |->
                            <<reads[i][1],
                              TypedValue(value.v[reads[i][1]],
                                         reads[i][2]).v>>]))
              /\ Unreadable(value.v, reads) # {} =>
                    LET i == FirstUnreadable(value.v, reads)
                    IN  /\ IsErr(result')
                        /\ NoEntry(value.v, reads, i) =>
                              result' = Err(MissingFieldError(reads[i][1]))]_vars

\* C18 witness: b and then a of {"a":[1,null],"b":1} have been read, b as
\* a Json and a as a Vec.
C18_Witness ==
    /\ pc = "decoded"
    /\ value = Object(Str(<<"a">>) :> List(<<Number(f64_of(1, 0)), Null>>)
                      @@ Str(<<"b">>) :> Number(f64_of(1, 0)))
    /\ result = Ok(Struct(<<<<Str(<<"b">>), Number(f64_of(1, 0))>>,
                            <<Str(<<"a">>),
                              Vec(<<Number(f64_of(1, 0)), Null>>)>>>>))


\* C19: read_struct on a value that is not an Object fails with
\* ExpectedError("Object", the value's text), whatever the number of
\* fields, none included; when it succeeds, what it discards after the
\* body is what is left of the Object it started with.
C19_ReadStruct ==
    [][\A reads \in FieldReads(MaxFields) :
          DecodeStruct(reads) =>
              /\ value.t # "Object" =>
                    result' = Err(ExpectedError("Object", to_str(value)))
              /\ IsOk(result') =>
                    /\ value.t = "Object"
                    /\ struct_fields(TheDecoder, reads, <<>>).d.stack \in
                           {<<>>,
                            <<Object([k \in (DOMAIN value.v)
                                         \ {reads[i][1] : i \in DOMAIN reads}
                                         |-> value.v[k]])>>}
                    /\ stack' = <<>>]_vars

\* C19 for the structs that have a field.
C19_WithFields ==
    [][\A reads \in FieldReads(MaxFields) :
          DecodeStruct(reads) /\ reads # <<>> =>
              /\ value.t # "Object" =>
                    result' = Err(ExpectedError("Object", to_str(value)))
              /\ IsOk(result') =>
                    /\ value.t = "Object"
                    /\ struct_fields(TheDecoder, reads, <<>>).d.stack =
                           <<Object([k \in (DOMAIN value.v)
                                        \ {reads[i][1] : i \in DOMAIN reads}
                                        |-> value.v[k]])>>
                    /\ stack' = <<>>]_vars

\* C19 witness: the document [1,null] has been read as a struct without
\* fields, and the read succeeded.
C19_Witness ==
    /\ pc = "decoded"
    /\ value = List(<<Number(f64_of(1, 0)), Null>>)
    /\ result = Ok(Struct(<<>>))


-----------------------------------------------------------------------------
(* A variant of an enum: encoded, then decoded *)

\* emit_int: the integer as an f64.
emit_int(e, v) == emit_f64(e, f64_of(v, 0))

\* emit_enum_variant up to the call of f (at once the whole of it when
\* cnt = 0), and from the return of f.
emit_enum_variant(e, name, cnt) ==
    IF cnt = 0 THEN emit_str(e, name)
    ELSE emit_seq_open(
             emit_struct_field(
                 emit_str(emit_struct_field(emit_struct_open(e),
                                            Str(<<"v", "a", "r", "i", "a", "n", "t">>),
                                            0),
                          name),
                 Str(<<"f", "i", "e", "l", "d", "s">>), 1))

emit_enum_variant_close(e, cnt) ==
    IF cnt = 0 THEN e ELSE emit_struct_close(emit_seq_close(e))

\* emit_enum_variant_arg is emit_seq_elt.
emit_enum_variant_arg(e, idx) == emit_seq_elt(e, idx)

\* Encodable for ~str and int.
encode_typed(e, x) ==
    IF x.t = "str" THEN emit_str(e, x.v) ELSE emit_int(e, x.v)

\* #[deriving(Encodable)] for an enum: emit_enum (which only calls its
\* closure), emit_enum_variant with the variant's name and the number of
\* its arguments, and in its closure one emit_enum_variant_arg per
\* argument, in order.
RECURSIVE encode_args(_, _, _)
encode_args(e, args, idx) ==
    IF idx = Len(args) THEN e
    ELSE encode_args(encode_typed(emit_enum_variant_arg(e, idx), args[idx + 1]),
                     args, idx + 1)

encode_enum(e, a) ==
    emit_enum_variant_close(
        encode_args(emit_enum_variant(e, a.v[1], Len(a.v[2])), a.v[2], 0),
        Len(a.v[2]))

MaxFrogName == 2

\* A quote, a backslash, a comma, a closing bracket and a letter.
FrogNameChars == {C("QUOTE"), C("BSL"), C(","), C("]"), C("a")}

FrogNames == UNION {[1..n -> FrogNameChars] : n \in 0..MaxFrogName}

FrogNumbers == {-12, 0, 7, 349}

\* Dog, and the Frogs of these names and numbers.
Animals ==
    {Variant(Animal[1].name, <<>>)}
        \cup {Variant(Animal[2].name, <<TStr(s), TInt(n)>>) :
                  s \in FrogNames, n \in FrogNumbers}

InitEnum == InitValue(Animals)

\* animal.encode(&mut encoder), the encoder new with sp spaces.
EncodeEnum(sp) ==
    /\ pc = "value"
    /\ SetEncoder(encode_enum(Encoder(<<>>, sp, 0), value))
    /\ pc' = "encoded"
    /\ UNCHANGED <<input, result, value, decoderVars>>

\* Decodable::decode for Animal, after Decoder::new on the encoder's text.
DecodeEnum ==
    /\ pc = "ready2"
    /\ Let(decode_enum(TheDecoder, Animal), LAMBDA a :
           SetDecoder(a.d) /\ result' = a.r)
    /\ pc' = "decoded"
    /\ UNCHANGED <<input, value, encoderVars>>

NextEnum == (\E sp \in EncoderModes : EncodeEnum(sp)) \/ DecoderNew \/ DecodeEnum

SpecEnum == InitEnum /\ [][NextEnum]_vars

\* The texts t1, ..., tk with a comma between each two.
RECURSIVE CommaSeparated(_)
CommaSeparated(ts) ==
    IF ts = <<>> THEN <<>>
    ELSE IF Len(ts) = 1 THEN ts[1]
    ELSE ts[1] \o <<C(",")>> \o CommaSeparated(Tail(ts))

\* The JSON text of an argument: a string or a number.
ArgText(x) ==
    IF x.t = "str" THEN to_str(String(x.v)) ELSE to_str(Number(f64_of(x.v, 0)))

\* "<name>" for a variant without arguments, and for one with arguments
\* {"variant":"<name>","fields":[a1,...,ak]}.
VariantText(a) ==
    IF a.v[2] = <<>> THEN to_str(String(a.v[1]))
    ELSE Str(<<"{", "QUOTE", "v", "a", "r", "i", "a", "n", "t", "QUOTE", ":">>)
         \o to_str(String(a.v[1]))
         \o Str(<<",", "QUOTE", "f", "i", "e", "l", "d", "s", "QUOTE", ":", "[">>)
         \o CommaSeparated([i \in DOMAIN a.v[2] |-> ArgText(a.v[2][i])])
         \o Str(<<"]", "}">>)

\* The position, from 0, of the variant named name in the declaration.
IndexOf(decl, name) == (CHOOSE i \in DOMAIN decl : decl[i].name = name) - 1

-----------------------------------------------------------------------------
(* Enums: objects that are not the encoding of a variant *)

MaxEnumEntries == 2

\* The keys of the objects: the two read_enum_variant looks up, and one it
\* does not.
EnumKeys == {variant_key, fields_key, Str(<<"a">>)}

\* Texts of values, each with the value it denotes: a number, the names
\* Dog, Frog and C, null, and the lists [] and ["a",3].
EnumLeaves ==
    {<<Str(<<"1">>), Number(f64_of(1, 0))>>,
     <<Str(<<"QUOTE", "D", "o", "g", "QUOTE">>), String(Str(<<"D", "o", "g">>))>>,
     <<Str(<<"QUOTE", "F", "r", "o", "g", "QUOTE">>),
       String(Str(<<"F", "r", "o", "g">>))>>,
     <<Str(<<"QUOTE", "C", "QUOTE">>), String(Str(<<"C">>))>>,
     <<Str(<<"n", "u", "l", "l">>), Null>>,
     <<Str(<<"[", "]">>), List(<<>>)>>,
     <<Str(<<"[", "QUOTE", "a", "QUOTE", ",", "3", "]">>),
       List(<<String(Str(<<"a">>)), Number(f64_of(3, 0))>>)>>}

\* The sequences of at most n entries with keys that differ.
EnumEntries(n) ==
    {es \in UNION {[1..k -> EnumKeys \X EnumLeaves] : k \in 0..n} :
        \A i, j \in DOMAIN es : es[i][1] = es[j][1] => i = j}

EnumDocs == {TreeDoc(es) : es \in EnumEntries(MaxEnumEntries)}

\* The state before Decoder::new on such an object.
InitEnumDoc ==
    /\ InitBlank
    /\ \E doc \in EnumDocs : input = doc[1] /\ value = doc[2]
    /\ pc = "new"

\* from_str::<Animal> after Decoder::new on a document.
DecodeAnimal ==
    /\ pc = "ready"
    /\ Let(decode_enum(TheDecoder, Animal), LAMBDA a :
           SetDecoder(a.d) /\ result' = a.r)
    /\ pc' = "decoded"
    /\ UNCHANGED <<input, value, encoderVars>>

NextEnumDoc == DecoderNew \/ DecodeAnimal

SpecEnumDoc == InitEnumDoc /\ [][NextEnumDoc]_vars

\* The failures of an object o as the encoding of a variant of decl, in
\* the order they are looked for: each a condition and the error it gives.
EnumFailures(o, decl) ==
    <<<<variant_key \notin DOMAIN o, MissingFieldError(variant_key)>>,
      <<variant_key \in DOMAIN o /\ o[variant_key].t # "String",
        IF variant_key \in DOMAIN o
        THEN ExpectedError("String", to_str(o[variant_key]))
        ELSE MissingFieldError(variant_key)>>,
      <<fields_key \notin DOMAIN o, MissingFieldError(fields_key)>>,
      <<fields_key \in DOMAIN o /\ o[fields_key].t # "List",
        IF fields_key \in DOMAIN o
        THEN ExpectedError("List", to_str(o[fields_key]))
        ELSE MissingFieldError(fields_key)>>,
      <<variant_key \in DOMAIN o /\ o[variant_key].t = "String"
            /\ \A i \in DOMAIN decl : decl[i].name # o[variant_key].v,
        IF variant_key \in DOMAIN o
        THEN UnknownVariantError(o[variant_key].v)
        ELSE MissingFieldError(variant_key)>>>>

\* C21: read_enum_variant on an Object reports the first of these that
\* applies, in this order, and the closure is not called: no "variant"
\* entry, MissingFieldError("variant"); a "variant" that is no String,
\* ExpectedError("String", its text); no "fields" entry,
\* MissingFieldError("fields"); "fields" that is no List,
\* ExpectedError("List", its text); a name that is not declared,
\* UnknownVariantError(name).  With none of them the closure is called
\* with the fields on the stack.
C21_EnumErrors ==
    [][DecodeAnimal =>
          LET fs == EnumFailures(value.v, Animal)
              failing == {i \in DOMAIN fs : fs[i][1]}
              r == read_enum_variant(TheDecoder, variant_names(Animal))
          IN  /\ failing # {} =>
                    /\ result' = Err(fs[CHOOSE i \in failing :
                                           \A j \in failing : i <= j][2])
                    /\ r.r = result'
              /\ failing = {} =>
                    /\ IsOk(r.r)
                    /\ Len(r.d.stack) = Len(value.v[fields_key].v)]_vars

\* C21 witness: {"fields":[],"variant":"C"} has been decoded, and C is no
\* variant of Animal.
C21_Witness ==
    /\ pc = "decoded"
    /\ input = Str(<<"{", "QUOTE", "f", "i", "e", "l", "d", "s", "QUOTE", ":",
                     "[", "]", ",", "QUOTE", "v", "a", "r", "i", "a", "n", "t",
                     "QUOTE", ":", "QUOTE", "C", "QUOTE", "}">>)
    /\ result = Err(UnknownVariantError(Str(<<"C">>)))


-----------------------------------------------------------------------------
(* The typed decoder: options *)

\* read_option, but a value that is not Null is not pushed back.
read_option_drop(d) ==
    Let(pop(d), LAMBDA p :
        IF ~IsOk(p.r) THEN p
        ELSE Done(p.d, Ok(p.r.v.t # "Null")))

\* read_option up to the call of f: r is the bool handed to f.
read_option(d) ==
    Let(pop(d), LAMBDA p :
        IF ~IsOk(p.r) THEN p
        ELSE IF p.r.v.t = "Null" THEN Done(p.d, Ok(FALSE))
        ELSE Done(stack_push(p.d, p.r.v), Ok(TRUE)))

\* An Option<T>.
None == [t |-> "None", v |-> 0]
Some(x) == [t |-> "Some", v |-> x]

\* Decodable for Option<T>: read_option, and in its closure T's decode
\* when the bool is true.
decode_option(d, T) ==
    Let(read_option(d), LAMBDA o :
        IF ~IsOk(o.r) THEN o
        ELSE IF ~o.r.v THEN Done(o.d, Ok(None))
        ELSE Let(decode_typed(o.d, T), LAMBDA x :
                 IF ~IsOk(x.r) THEN x ELSE Done(x.d, Ok(Some(x.r.v)))))

\* Decodable for Vec<Option<T>>.
RECURSIVE decode_option_elts(_, _, _, _)
decode_option_elts(d, len, acc, T) ==
    IF Len(acc) = len THEN Done(d, Ok(Vec(acc)))
    ELSE Let(decode_option(d, T), LAMBDA x :
             IF ~IsOk(x.r) THEN x
             ELSE decode_option_elts(x.d, len, Append(acc, x.r.v), T))

decode_options(d, T) ==
    Let(read_seq(d), LAMBDA s :
        IF ~IsOk(s.r) THEN s ELSE decode_option_elts(s.d, s.r.v, <<>>, T))

MaxOptLen == 3

OptLeaves ==
    {Null, Boolean(TRUE), Number(f64_of(1, 0)), String(Str(<<"a">>))}

\* The leaves, two lists, and the lists of at most MaxOptLen leaves.
OptValues ==
    OptLeaves \cup {List(<<List(<<Null>>), Null>>)}
    \cup {List(xs) : xs \in UNION {[1..n -> OptLeaves] : n \in 0..MaxOptLen}}

InitOption == InitValue(OptValues)

OptTypes == {"Json", "str"}

\* from_str::<Option<T>>, or from_str::<Vec<Option<T>>> when many, on the
\* encoder's text, after Decoder::new.
DecodeOption(T, many) ==
    /\ pc = "ready2"
    /\ Let(IF many THEN decode_options(TheDecoder, T)
           ELSE decode_option(TheDecoder, T),
           LAMBDA o : SetDecoder(o.d) /\ result' = o.r)
    /\ pc' = "decoded"
    /\ UNCHANGED <<input, value, encoderVars>>

NextOption ==
    \/ \E sp \in EncoderModes : Encode(sp)
    \/ DecoderNew
    \/ \E T \in OptTypes, many \in BOOLEAN : DecodeOption(T, many)

SpecOption == InitOption /\ [][NextOption]_vars

\* The stack with the elements of the list xs from the k-th on still to
\* be read: the k-th on top.
StackFrom(xs, k) == [i \in 1..(Len(xs) + 1 - k) |-> xs[Len(xs) + 1 - i]]

\* read_option on the stack st takes a Null x off it and hands over
\* false; any other x it leaves where it is and hands over true, and the
\* read that follows gets x and leaves what was below.
OptionRead(d, st, x) ==
    LET o == read_option([d EXCEPT !.stack = Append(st, x)])
        n == decode_json(o.d)
    IN  IF x.t = "Null"
        THEN o.r = Ok(FALSE) /\ o.d.stack = st
        ELSE /\ o.r = Ok(TRUE)
             /\ o.d.stack = Append(st, x)
             /\ n.r = Ok(x)
             /\ n.d.stack = st

\* The Option<Json> a value denotes.
OptionOf(x) == IF x.t = "Null" THEN None ELSE Some(x)

\* C22: read_option takes a Null off the stack and calls its closure with
\* false; with any other value next it calls the closure with true and the
\* next read gets that value; what is below on the stack stays as it was.
C22_ReadOption ==
    [][\A T \in OptTypes, many \in BOOLEAN :
          DecodeOption(T, many) =>
              /\ ~many =>
                    /\ LET o == read_option(TheDecoder)
                           n == decode_json(o.d)
                       IN  IF value.t = "Null"
                           THEN o.r = Ok(FALSE) /\ o.d.stack = <<>>
                           ELSE /\ o.r = Ok(TRUE)
                                /\ o.d.stack = <<value>>
                                /\ n.r = Ok(value)
                                /\ n.d.stack = <<>>
                    /\ T = "Json" => result' = Ok(OptionOf(value))
              /\ many /\ value.t = "List" =>
                    /\ \A k \in DOMAIN value.v :
                          OptionRead(read_seq(TheDecoder).d,
                                     StackFrom(value.v, k + 1), value.v[k])
                    /\ T = "Json" =>
                          result' = Ok(Vec([k \in DOMAIN value.v |->
                                               OptionOf(value.v[k])]))
                    /\ IsOk(result') => stack' = <<>>]_vars

\* C22 witness: [null,"a",null] has been read as a Vec<Option<~str>>.
C22_Witness ==
    /\ pc = "decoded"
    /\ value = List(<<Null, String(Str(<<"a">>)), Null>>)
    /\ result = Ok(Vec(<<None, Some(TStr(Str(<<"a">>))), None>>))


-----------------------------------------------------------------------------
(* The typed decoder: the reads of primitive values, one after another *)

\* The () of Ok(()).
Unit == "()"

read_nil(d) ==
    Let(pop(d), LAMBDA p :
        IF ~IsOk(p.r) THEN p
        ELSE IF p.r.v.t = "Null" THEN Done(p.d, Ok(Unit))
        ELSE Done(p.d, Err(ExpectedError("Null", to_str(p.r.v)))))

\* read_char: the character of a string of one character; format!("{}", s)
\* of a ~str is the string itself.
read_char(d) ==
    Let(read_str(d), LAMBDA s :
        IF ~IsOk(s.r) THEN s
        ELSE IF Len(s.r.v) = 1 THEN Done(s.d, Ok(s.r.v[1]))
        ELSE Done(s.d, Err(ExpectedError("single character string", s.r.v))))

ReadKinds ==
    {"read_nil", "read_bool", "read_f64", "read_str", "read_char", "read_seq"}

read_by(d, kind) ==
    CASE kind = "read_nil" -> read_nil(d)
      [] kind = "read_bool" -> read_bool(d)
      [] kind = "read_f64" -> read_f64(d)
      [] kind = "read_str" -> read_str(d)
      [] kind = "read_char" -> read_char(d)
      [] kind = "read_seq" -> read_seq(d)

MaxReadLen == 3

ReadPieces ==
    {<<C("1")>>, <<C("QUOTE")>>, <<C("a")>>, <<C("[")>>, <<C("]")>>, <<C(",")>>,
     Str(<<"n", "u", "l", "l">>), Str(<<"t", "r", "u", "e">>)}

\* "ab", "1.5", "abc", [1,"a"], [null,true,""], {}
ReadExamples ==
    {Str(<<"QUOTE", "a", "b", "QUOTE">>),
     Str(<<"QUOTE", "1", ".", "5", "QUOTE">>),
     Str(<<"QUOTE", "a", "b", "c", "QUOTE">>),
     Str(<<"[", "1", ",", "QUOTE", "a", "QUOTE", "]">>),
     Str(<<"[", "n", "u", "l", "l", ",", "t", "r", "u", "e", ",", "QUOTE",
           "QUOTE", "]">>),
     Str(<<"{", "}">>)}

InitRead == InitText(Texts(ReadPieces, MaxReadLen) \cup ReadExamples)

\* What a read returned, with the read it came from.
Returned(kind, v) == [t |-> kind, v |-> v]

\* One read on the decoder, the first after Decoder::new or a later one.
\* A read that fails the task ends the use of the decoder.
Read(kind) ==
    /\ pc \in {"ready", "read"}
    /\ Let(read_by(TheDecoder, kind), LAMBDA r :
           /\ SetDecoder(r.d)
           /\ result' = IF IsOk(r.r) THEN Ok(Returned(kind, r.r.v)) ELSE r.r
           /\ pc' = IF r.r.k = "Failure" THEN "failed" ELSE "read")
    /\ UNCHANGED <<input, value, encoderVars>>

NextRead == DecoderNew \/ \E kind \in ReadKinds : Read(kind)

SpecRead == InitRead /\ [][NextRead]_vars

NoValue == [k |-> "None", v |-> 0]

\* The value the next read is about: the document's when nothing was read
\* yet, else the top of the stack; NoValue when there is none.
NextValue ==
    IF ~parsed
    THEN (IF IsOk(from_str(input)) THEN from_str(input) ELSE NoValue)
    ELSE IF stack = <<>> THEN NoValue
    ELSE Ok(stack[Len(stack)])

\* What read_f64 is to return on the next value.
F64Returned ==
    /\ NextValue.k = "None" => IsErr(result')
    /\ IsOk(NextValue) =>
          LET x == NextValue.v
          IN  CASE x.t = "Number" -> result' = Ok(Returned("read_f64", x.v))
                [] x.t = "String" ->
                     IF IsNumberToken(x.v)
                     THEN result' = Ok(Returned("read_f64", from_str(x.v).v.v))
                     ELSE IsErr(result')
                [] OTHER -> result' = Err(ExpectedError("Number", to_str(x)))

\* C23: every read returns a result, Ok or Err; read_f64 returns the
\* number of a Number, the number a String holds in decimal, and an error
\* for any other value, a String that holds no number included; a read
\* with no value left, after a failed parse or after the last value was
\* read, returns an error.
C23_ReadsReturn ==
    [][\A kind \in ReadKinds :
          Read(kind) =>
              /\ result'.k # "Failure"
              /\ NextValue.k = "None" => IsErr(result')
              /\ kind = "read_f64" => F64Returned]_vars

\* C23 but for the two reads that fail the task: a read with the document
\* parsed and the stack empty, and read_f64 on a String that holds no
\* number.
C23_ExceptUnwraps ==
    [][\A kind \in ReadKinds :
          Read(kind) =>
              LET none == parsed /\ stack = <<>>
                  nan  == /\ kind = "read_f64"
                          /\ IsOk(NextValue)
                          /\ NextValue.v.t = "String"
                          /\ ~IsNumberToken(NextValue.v.v)
              IN  /\ result'.k = "Failure" <=> (none \/ nan)
                  /\ ~parsed /\ NextValue.k = "None" => IsErr(result')
                  /\ kind = "read_f64" /\ ~none /\ ~nan => F64Returned]_vars

\* C23 witness: read_f64 on the document "abc" failed the task.
C23_Witness ==
    /\ pc = "failed"
    /\ input = Str(<<"QUOTE", "a", "b", "c", "QUOTE">>)
    /\ stack = <<>>
    /\ result.k = "Failure"


\* The reads of one kind of value, with the name their error gives it.
PrimitiveReads ==
    [read_nil |-> "Null", read_bool |-> "Boolean", read_str |-> "String",
     read_char |-> "single character string"]

\* The read kind succeeds on the value x.
Accepts(kind, x) ==
    CASE kind = "read_nil" -> x.t = "Null"
      [] kind = "read_bool" -> x.t = "Boolean"
      [] kind = "read_str" -> x.t = "String"
      [] kind = "read_char" -> x.t = "String" /\ Len(x.v) = 1

\* What the read kind returns on a value x it accepts.
ValueRead(kind, x) ==
    CASE kind = "read_nil" -> Returned(kind, Unit)
      [] kind = "read_bool" -> Returned(kind, x.v)
      [] kind = "read_str" -> Returned(kind, x.v)
      [] kind = "read_char" -> Returned(kind, x.v[1])

\* C24: read_nil succeeds only on Null, read_bool only on a Boolean,
\* read_str only on a String and read_char only on a String of one
\* character; on any other value each fails with ExpectedError of "Null",
\* "Boolean", "String", "single character string" and the compact text of
\* the value.
C24_PrimitiveReads ==
    [][\A kind \in DOMAIN PrimitiveReads :
          Read(kind) /\ IsOk(NextValue) =>
              LET x == NextValue.v
              IN  IF Accepts(kind, x) THEN result' = Ok(ValueRead(kind, x))
                  ELSE result' = Err(ExpectedError(PrimitiveReads[kind],
                                                   to_str(x)))]_vars

\* C24 with read_char as it is: on a value that is no String the error is
\* read_str's, and on a String of another length the error holds the
\* string itself, without quotes or escapes.
C24_CharAsRead ==
    [][\A kind \in DOMAIN PrimitiveReads :
          Read(kind) /\ IsOk(NextValue) =>
              LET x == NextValue.v
              IN  IF Accepts(kind, x) THEN result' = Ok(ValueRead(kind, x))
                  ELSE IF kind # "read_char"
                  THEN result' = Err(ExpectedError(PrimitiveReads[kind],
                                                   to_str(x)))
                  ELSE IF x.t # "String"
                  THEN result' = Err(ExpectedError("String", to_str(x)))
                  ELSE result' = Err(ExpectedError("single character string",
                                                   x.v))]_vars

\* C24 witness: read_char on the document "ab" gave an error that holds
\* ab.
C24_Witness ==
    /\ pc = "read"
    /\ input = Str(<<"QUOTE", "a", "b", "QUOTE">>)
    /\ result = Err(ExpectedError("single character string",
                                  Str(<<"a", "b">>)))


-----------------------------------------------------------------------------
(* The encoder's text: values, structs and variants, compact and pretty *)

\* #[deriving(Encodable)] for a struct: emit_struct with the number of
\* fields, and in its closure one emit_struct_field per field, in order,
\* with the field's encode as its closure.
RECURSIVE encode_fields(_, _, _)
encode_fields(e, fields, idx) ==
    IF idx = Len(fields) THEN e
    ELSE encode_fields(encode(emit_struct_field(e, fields[idx + 1][1], idx),
                              fields[idx + 1][2]),
                       fields, idx + 1)

encode_struct(e, s) ==
    emit_struct_close(encode_fields(emit_struct_open(e), s.v, 0))

MaxWriteLen == 2

\* null, false, 3.5 and a string with a space and a newline in it.
WriteLeaves ==
    {Null, Boolean(FALSE), Number(f64_of(35, -1)),
     String(Str(<<"a", " ", "LF", "b">>))}

WriteKeys == {Str(<<"a">>), Str(<<"b", " ", "c">>)}

\* The lists of at most n values of V, and the objects of at most n
\* entries with these keys and values of V.
ListsOf(V, n) == {List(xs) : xs \in UNION {[1..k -> V] : k \in 0..n}}

ObjectsOf(V, n) ==
    {Object(m) : m \in UNION {[K -> V] :
                     K \in {K \in SUBSET WriteKeys : Cardinality(K) <= n}}}

WriteFlat ==
    WriteLeaves \cup ListsOf(WriteLeaves, MaxWriteLen)
        \cup ObjectsOf(WriteLeaves, MaxWriteLen)

\* [false,null,["foo\nbar",3.5]], with a for foo and b for bar.
LongTestList ==
    List(<<Boolean(FALSE), Null,
           List(<<String(Str(<<"a", "LF", "b">>)), Number(f64_of(35, -1))>>)>>)

\* The flat values, each of them in a list, after another value in a list
\* and in an object, and the examples.
WriteValues ==
    WriteFlat
        \cup {List(<<x>>) : x \in WriteFlat}
        \cup {List(<<Null, x>>) : x \in WriteFlat}
        \cup {Object(Str(<<"a">>) :> x) : x \in WriteFlat}
        \cup {LongTestList, ComplexObject}

\* The name of the i-th field of a struct: x, xx, xxx, ...
WriteFieldName(i) == [j \in 1..i |-> C("x")]

\* The structs of at most n fields that hold values of V.
StructsOf(V, n) ==
    {Struct([i \in DOMAIN f |-> <<WriteFieldName(i), f[i]>>]) :
         f \in UNION {[1..k -> V] : k \in 0..n}}

\* Structs that hold leaves, an empty object or a list, and three
\* variants.
WriteTyped ==
    StructsOf(WriteLeaves \cup {List(<<Null>>), Object(EmptyMap)}, MaxWriteLen)
    \cup {Variant(Animal[1].name, <<>>),
          Variant(Animal[2].name, <<TStr(Str(<<"a", " ", "b">>)), TInt(7)>>),
          Variant(Animal[2].name, <<TStr(<<>>), TInt(-12)>>)}

\* The state before a Json or a struct or variant is encoded.
InitWrite ==
    /\ InitBlank
    /\ input = <<>>
    /\ \/ value \in WriteValues /\ pc = "value"
       \/ value \in WriteTyped /\ pc = "typed"

\* value.encode(&mut encoder) for a struct or a variant, the encoder new
\* with sp spaces.
EncodeTyped(sp) ==
    /\ pc = "typed"
    /\ SetEncoder(IF value.t = "Struct"
                  THEN encode_struct(Encoder(<<>>, sp, 0), value)
                  ELSE encode_enum(Encoder(<<>>, sp, 0), value))
    /\ pc' = "encoded"
    /\ UNCHANGED <<input, result, value, decoderVars>>

NextWrite == \E sp \in EncoderModes : Encode(sp) \/ EncodeTyped(sp)

SpecWrite == InitWrite /\ [][NextWrite]_vars

\* The characters of the text s that are not within a string: in says
\* whether s starts within one.
RECURSIVE BareChars(_, _)
BareChars(s, in) ==
    IF s = <<>> THEN <<>>
    ELSE IF ~in
    THEN (IF Head(s) = C("QUOTE") THEN BareChars(Tail(s), TRUE)
          ELSE <<Head(s)>> \o BareChars(Tail(s), FALSE))
    ELSE IF Head(s) = C("QUOTE") THEN BareChars(Tail(s), FALSE)
    ELSE IF Head(s) = C("BSL") /\ Len(s) >= 2
    THEN BareChars(Tail(Tail(s)), TRUE)
    ELSE BareChars(Tail(s), TRUE)

\* C25: the text of the compact encoder (spaces = 0) has no space, tab or
\* newline outside a string, whatever is encoded.
C25_CompactNoWhitespace ==
    pc = "encoded" /\ spaces = 0 =>
        \A i \in DOMAIN BareChars(wr, FALSE) :
            BareChars(wr, FALSE)[i] \notin {C(" "), C("TAB"), C("LF"), C("CR")}

\* C25 witness: the compact encoder wrote [null,"a \nb"], a comma outside
\* a string and a space within one.
C25_Witness ==
    /\ pc = "encoded"
    /\ spaces = 0
    /\ wr = Str(<<"[", "n", "u", "l", "l", ",", "QUOTE", "a", " ", "BSL", "n",
                  "b", "QUOTE", "]">>)


\* The value v is a Json without an Object in it.
RECURSIVE NoObjects(_)
NoObjects(v) ==
    CASE v.t \in {"Null", "Boolean", "Number", "String"} -> TRUE
      [] v.t = "List" -> \A i \in DOMAIN v.v : NoObjects(v.v[i])
      [] OTHER -> FALSE

\* The text of a value without Objects at indent ind of an encoder with
\* sp spaces: a list is [ and ] around its elements with a comma between
\* each two; when sp > 0 a newline and ind spaces come before the ], and,
\* when each is set, a newline and ind + sp spaces before every element.
RECURSIVE SeqText(_, _, _, _)
RECURSIVE SeqElements(_, _, _, _, _)
SeqText(v, ind, sp, each) ==
    IF v.t # "List" THEN to_str(v)
    ELSE IF v.v = <<>> THEN <<C("["), C("]")>>
    ELSE <<C("[")>> \o SeqElements(v.v, 1, ind + sp, sp, each)
             \o (IF sp > 0 THEN <<C("LF")>> \o spaces_str(ind) ELSE <<>>)
             \o <<C("]")>>

SeqElements(xs, i, ind, sp, each) ==
    IF i > Len(xs) THEN <<>>
    ELSE (IF i # 1 THEN <<C(",")>> ELSE <<>>)
             \o (IF sp > 0 /\ each THEN <<C("LF")>> \o spaces_str(ind) ELSE <<>>)
             \o SeqText(xs[i], ind, sp, each)
             \o SeqElements(xs, i + 1, ind, sp, each)

IsJson(v) == v.t \in {"Null", "Boolean", "Number", "String", "List", "Object"}

\* C26: the pretty encoder writes a sequence that is not empty as [, then
\* each element after a comma (but the first) and a newline and the
\* indent, then a newline, the enclosing indent and ]; an empty sequence
\* is [] for both encoders; the compact encoder writes no newline or
\* indent.
C26_PrettySeq ==
    pc = "encoded" /\ IsJson(value) /\ NoObjects(value) =>
        wr = SeqText(value, 0, spaces, TRUE)

\* C26 with the elements as they are written: no newline or indent
\* before an element, only before the ].
C26_NoBreakBeforeElements ==
    pc = "encoded" /\ IsJson(value) /\ NoObjects(value) =>
        wr = SeqText(value, 0, spaces, FALSE)

\* C26 witness: the pretty encoder wrote [false,null,["a\nb",3.5]] with
\* line breaks before each ] only.
C26_Witness ==
    /\ pc = "encoded"
    /\ spaces = Encoder_new_pretty.spaces
    /\ value = LongTestList
    /\ wr = Str(<<"[", "f", "a", "l", "s", "e", ",", "n", "u", "l", "l", ",",
                  "[", "QUOTE", "a", "BSL", "n", "b", "QUOTE", ",", "3", ".",
                  "5", "LF", " ", " ", "]", "LF", "]">>)


IsLeaf(v) == v.t \in {"Null", "Boolean", "Number", "String"}

\* The entries of an Object whose values are leaves, in key order, and
\* the fields of a struct, each <<key, value>>.
EntriesOf(v) ==
    IF v.t = "Object"
    THEN [i \in 1..Cardinality(DOMAIN v.v) |->
             <<SortedKeys(DOMAIN v.v)[i], v.v[SortedKeys(DOMAIN v.v)[i]]>>]
    ELSE v.v

HoldsLeaves(v) ==
    /\ v.t \in {"Object", "Struct"}
    /\ \A i \in DOMAIN EntriesOf(v) : IsLeaf(EntriesOf(v)[i][2])

\* The entries es from the i-th on of an encoder with sp spaces: a comma
\* before each but the first, when sp > 0 a newline and sp spaces, the key
\* as the text key(k), a colon, gap, and the value.
RECURSIVE EntryLines(_, _, _, _, _)
EntryLines(es, i, sp, key(_), gap) ==
    IF i > Len(es) THEN <<>>
    ELSE (IF i # 1 THEN <<C(",")>> ELSE <<>>)
             \o (IF sp > 0 THEN <<C("LF")>> \o spaces_str(sp) ELSE <<>>)
             \o key(es[i][1]) \o <<C(":")>> \o gap \o to_str(es[i][2])
             \o EntryLines(es, i + 1, sp, key, gap)

\* { and } around the entries, with a newline before the } when sp > 0.
Braced(es, sp, key(_), gap) ==
    <<C("{")>> \o EntryLines(es, 1, sp, key, gap)
        \o (IF sp > 0 THEN <<C("LF")>> ELSE <<>>) \o <<C("}")>>

\* C27: an empty Object is written {} by both encoders; the pretty
\* encoder writes an Object with entries as {, each entry on a line of its
\* own at the indent as the key's string, a colon, a space and the value,
\* with a comma between each two, then a newline and }.
C27_PrettyObject ==
    pc = "encoded" /\ value.t = "Object" /\ HoldsLeaves(value) =>
        wr = IF value.v = EmptyMap THEN <<C("{"), C("}")>>
             ELSE Braced(EntriesOf(value), spaces, escape_str,
                         IF spaces > 0 THEN <<C(" ")>> ELSE <<>>)

\* The key k quoted and escaped twice.
EscapedTwice(k) == escape_str(escape_str(k))

\* C27 with the text as it is written: no space after the colon, the key
\* of an Object quoted twice, a newline in the pretty {} of an empty
\* Object or struct.
C27_AsWritten ==
    pc = "encoded" /\ HoldsLeaves(value) =>
        wr = IF value.t = "Object"
             THEN Braced(EntriesOf(value), spaces, EscapedTwice, <<>>)
             ELSE Braced(EntriesOf(value), spaces, escape_str, <<>>)

\* C27 witness: the pretty encoder wrote the empty Object with a newline
\* between the braces.
C27_Witness ==
    /\ pc = "encoded"
    /\ spaces = Encoder_new_pretty.spaces
    /\ value = Object(EmptyMap)
    /\ wr = Str(<<"{", "LF", "}">>)


-----------------------------------------------------------------------------
(* Ord for Json: lt *)

\* f64 < : false when either is NaN.
f64_lt(x, y) ==
    IF x.c = "nan" \/ y.c = "nan" THEN FALSE
    ELSE IF x.c = "inf" THEN x.m < 0 /\ ~(y.c = "inf" /\ y.m < 0)
    ELSE IF y.c = "inf" THEN y.m > 0
    ELSE LET e == IF x.e < y.e THEN x.e ELSE y.e
         IN  x.m * Pow10(x.e - e) < y.m * Pow10(y.e - e)

RECURSIVE json_lt(_, _)
RECURSIVE vec_lt(_, _)
RECURSIVE treemap_lt(_, _, _)

\* Ord for Vec<Json>: at the first index where the elements are not equal
\* the order of these two elements; a proper prefix is less.
vec_lt(xs, ys) ==
    IF xs = <<>> THEN ys # <<>>
    ELSE IF ys = <<>> THEN FALSE
    ELSE IF ~json_eq(Head(xs), Head(ys)) THEN json_lt(Head(xs), Head(ys))
    ELSE vec_lt(Tail(xs), Tail(ys))

\* Ord for TreeMap<~str, Json>: the entries of both in key order, from the
\* i-th on: the first pair with a key or a value less than the other's
\* decides; when none does, the map with fewer entries is less.
treemap_lt(a, b, i) ==
    IF i > Len(TreeMapEntries(a)) \/ i > Len(TreeMapEntries(b))
    THEN Len(TreeMapEntries(a)) < Len(TreeMapEntries(b))
    ELSE Let(TreeMapEntries(a)[i], LAMBDA ea :
         Let(TreeMapEntries(b)[i], LAMBDA eb :
             IF str_lt(ea[1].v, eb[1].v) THEN TRUE
             ELSE IF str_lt(eb[1].v, ea[1].v) THEN FALSE
             ELSE IF json_lt(ea[2], eb[2]) THEN TRUE
             ELSE IF json_lt(eb[2], ea[2]) THEN FALSE
             ELSE treemap_lt(a, b, i + 1)))

\* Ord::lt for Json.
json_lt(a, b) ==
    CASE a.t = "Number" ->
           IF b.t = "Number" THEN f64_lt(a.v, b.v) ELSE TRUE
      [] a.t = "String" ->
           IF b.t = "Number" THEN FALSE
           ELSE IF b.t = "String" THEN str_lt(a.v, b.v)
           ELSE TRUE
      [] a.t = "Boolean" ->
           IF b.t \in {"Number", "String"} THEN FALSE
           ELSE IF b.t = "Boolean" THEN ~a.v /\ b.v
           ELSE TRUE
      [] a.t = "List" ->
           IF b.t \in {"Number", "String", "Boolean"} THEN FALSE
           ELSE IF b.t = "List" THEN vec_lt(a.v, b.v)
           ELSE TRUE
      [] a.t = "Object" ->
           IF b.t \in {"Number", "String", "Boolean", "List"} THEN FALSE
           ELSE IF b.t = "Object" THEN treemap_lt(a.v, b.v, 1)
           ELSE TRUE
      [] a.t = "Null" ->
           IF b.t \in {"Number", "String", "Boolean", "List", "Object"}
           THEN FALSE
           ELSE TRUE

MaxOrdLen == 2

\* Numbers, NaN among them, strings, the Booleans and Null.
OrdLeaves ==
    {Number(f64_of(-1, 0)), Number(f64_of(5, -1)), Number(f64_of(2, 0)),
     Number(NaN), String(<<>>), String(Str(<<"a">>)), String(Str(<<"a", "b">>)),
     String(Str(<<"b">>)), Boolean(FALSE), Boolean(TRUE), Null}

\* What the lists and objects hold.
OrdElements == {Null, Number(f64_of(2, 0)), Boolean(TRUE)}

OrdValues ==
    OrdLeaves
        \cup {List(xs) : xs \in UNION {[1..k -> OrdElements] : k \in 0..MaxOrdLen}}
        \cup {Object(m) : m \in UNION {[K -> OrdElements] :
                              K \in {K \in SUBSET TreeKeys :
                                         Cardinality(K) <= MaxOrdLen}}}
        \cup {List(<<List(<<Null>>)>>), Object(Str(<<"a">>) :> List(<<Null>>))}

\* Two values to compare.
Pair(a, b) == [t |-> "Pair", v |-> <<a, b>>]

InitOrd == InitValue({Pair(a, b) : a, b \in OrdValues})

\* What the comparisons of a with b give: a < b, a == b, b < a.
Compared(a, b) ==
    [t |-> "Compared", v |-> <<json_lt(a, b), json_eq(a, b), json_lt(b, a)>>]

\* v < w, v == w and w < v for the two values.
Compare ==
    /\ pc = "value"
    /\ result' = Ok(Compared(value.v[1], value.v[2]))
    /\ pc' = "compared"
    /\ UNCHANGED <<input, value, decoderVars, encoderVars>>

NextOrd == Compare

SpecOrd == InitOrd /\ [][NextOrd]_vars


\* The place of a variant in the order of the variants.
VariantRank ==
    [Number |-> 1, String |-> 2, Boolean |-> 3, List |-> 4, Object |-> 5,
     Null |-> 6]

\* The first index at which the sequences s and t differ, one of them
\* having ended there or not: Len + 1 of the shorter when none does.
FirstDifference(s, t) ==
    CHOOSE k \in 1..(Len(s) + 1) :
        /\ \A j \in 1..(k - 1) : j \in DOMAIN t /\ s[j] = t[j]
        /\ k \notin DOMAIN s \/ k \notin DOMAIN t \/ s[k] # t[k]

\* The order of the numbers m * 10^e.
NumLess(x, y) ==
    /\ x.c = "fin" /\ y.c = "fin"
    /\ \E lo \in {x.e, y.e} :
          /\ lo <= x.e /\ lo <= y.e
          /\ x.m * Pow10(x.e - lo) < y.m * Pow10(y.e - lo)

\* The natural order of the payloads of two values of one variant, and
\* with it the order of the values: numeric, false before true,
\* lexicographic for a String and for a List, lexicographic over the
\* entries in key order for an Object, each entry by its key and then its
\* value.
RECURSIVE Less(_, _)
RECURSIVE EntryLess(_, _)
Less(a, b) ==
    IF a.t # b.t THEN VariantRank[a.t] < VariantRank[b.t]
    ELSE CASE a.t = "Number" -> NumLess(a.v, b.v)
           [] a.t = "String" ->
                LET k == FirstDifference(a.v, b.v)
                IN  k \in DOMAIN b.v /\ (k \in DOMAIN a.v => a.v[k] < b.v[k])
           [] a.t = "Boolean" -> ~a.v /\ b.v
           [] a.t = "List" ->
                LET k == FirstDifference(a.v, b.v)
                IN  k \in DOMAIN b.v
                        /\ (k \in DOMAIN a.v => Less(a.v[k], b.v[k]))
           [] a.t = "Object" ->
                LET ea == TreeMapEntries(a.v)
                    eb == TreeMapEntries(b.v)
                    k  == FirstDifference(ea, eb)
                IN  k \in DOMAIN eb /\ (k \in DOMAIN ea => EntryLess(ea[k], eb[k]))
           [] a.t = "Null" -> FALSE

EntryLess(x, y) ==
    \/ Less(x[1], y[1])
    \/ x[1] = y[1] /\ Less(x[2], y[2])

\* C28: for two values of different variants v < w exactly when v's
\* variant comes before w's in Number, String, Boolean, List, Object,
\* Null; for two of the same variant v < w is the natural order of what
\* they hold.
C28_VariantThenPayload ==
    pc = "compared" => result.v.v[1] = Less(value.v[1], value.v[2])

\* Both values are Null, or Objects with a Null under the same key.
NullMeetsNull(a, b) ==
    \/ a.t = "Null" /\ b.t = "Null"
    \/ /\ a.t = "Object" /\ b.t = "Object"
       /\ \E k \in DOMAIN a.v \cap DOMAIN b.v :
             a.v[k].t = "Null" /\ b.v[k].t = "Null"

\* C28 where no Null is compared with a Null.
C28_ExceptNullWithNull ==
    pc = "compared" /\ ~NullMeetsNull(value.v[1], value.v[2]) =>
        result.v.v[1] = Less(value.v[1], value.v[2])

\* C28 witness: Null has been compared with Null and found less.
C28_Witness ==
    /\ pc = "compared"
    /\ value = Pair(Null, Null)
    /\ result.v.v[1]

\* C29: for all values v and w exactly one of v < w, v == w, w < v holds;
\* v < v is false for every v.
C29_StrictTotalOrder ==
    pc = "compared" =>
        /\ Cardinality({i \in 1..3 : result.v.v[i]}) = 1
        /\ value.v[1] = value.v[2] => ~result.v.v[1]

\* The value holds a NaN.
RECURSIVE HasNaN(_)
HasNaN(v) ==
    CASE v.t = "Number" -> v.v.c = "nan"
      [] v.t = "List" -> \E i \in DOMAIN v.v : HasNaN(v.v[i])
      [] v.t = "Object" -> \E k \in DOMAIN v.v : HasNaN(v.v[k])
      [] OTHER -> FALSE

\* C29 where no Null is compared with a Null and no value holds a NaN.
C29_ExceptNullAndNaN ==
    pc = "compared" /\ ~NullMeetsNull(value.v[1], value.v[2])
            /\ ~HasNaN(value.v[1]) /\ ~HasNaN(value.v[2]) =>
        /\ Cardinality({i \in 1..3 : result.v.v[i]}) = 1
        /\ value.v[1] = value.v[2] => ~result.v.v[1]

\* C29 witness: Null has been compared with itself and found less than
\* itself, equal to itself and greater than itself.
C29_Witness ==
    /\ pc = "compared"
    /\ value.v[1].t = "Null"
    /\ value.v[2].t = "Null"
    /\ result.v.v = <<TRUE, TRUE, TRUE>>


-----------------------------------------------------------------------------
(* find and search *)

\* Json::find: the value under key of an Object, None for anything else.
find(v, key) ==
    IF v.t = "Object"
    THEN IF key \in DOMAIN v.v THEN Some(v.v[key]) ELSE None
    ELSE None

\* Json::search: the Object's own entry under key if it has one, else the
\* first hit of the search of the entries' values, in iteration order.
RECURSIVE search(_, _)
RECURSIVE search_from(_, _, _, _)
search_from(v, ks, i, key) ==
    IF i > Len(ks) THEN None
    ELSE Let(search(v.v[ks[i]], key), LAMBDA found :
           IF found.t = "Some" THEN found
           ELSE search_from(v, ks, i + 1, key))

search(v, key) ==
    IF v.t = "Object"
    THEN Let(find(v, key), LAMBDA own :
           IF own.t = "Some" THEN own
           ELSE search_from(v, SortedKeys(DOMAIN v.v), 1, key))
    ELSE None

MaxSearchLen == 2

MaxSearchDepth == 2

SearchKeys ==
    {Str(<<"c", "a", "t">>), Str(<<"d", "o", "g">>),
     Str(<<"m", "o", "u", "s", "e">>)}

\* Values that are no Objects; the last is a List that holds an Object.
SearchLeaves ==
    {String(Str(<<"c">>)), Number(Fin(1, 0)),
     List(<<Object(Str(<<"m", "o", "u", "s", "e">>) :> Number(Fin(2, 0)))>>)}

\* The Objects of at most MaxSearchLen entries over the values V.
SearchObjects(V) ==
    {Object(m) : m \in UNION {[K -> V] :
        K \in {S \in SUBSET SearchKeys : Cardinality(S) <= MaxSearchLen}}}

\* The values nested at most d Objects deep.
RECURSIVE SearchNested(_)
SearchNested(d) ==
    IF d = 0 THEN SearchLeaves
    ELSE SearchLeaves \cup SearchObjects(SearchNested(d - 1))

\* test_search's {"dog":{"cat":{"mouse":"cheese"}}}.
TestSearchValue ==
    Object(Str(<<"d", "o", "g">>) :>
        Object(Str(<<"c", "a", "t">>) :>
            Object(Str(<<"m", "o", "u", "s", "e">>) :> String(Str(<<"c", "h", "e", "e", "s", "e">>)))))

SearchValues == SearchNested(MaxSearchDepth) \cup {TestSearchValue}

InitSearch == InitValue(SearchValues)

Searched(key, found) == [t |-> "Searched", v |-> <<key, found>>]

\* value.search(key)
Search(key) ==
    /\ pc = "value"
    /\ result' = Ok(Searched(key, search(value, key)))
    /\ pc' = "searched"
    /\ UNCHANGED <<input, value, decoderVars, encoderVars>>

NextSearch == \E key \in SearchKeys : Search(key)

SpecSearch == InitSearch /\ [][NextSearch]_vars


\* The paths of keys that lead from v through nested Objects to a value.
RECURSIVE KeyPaths(_)
KeyPaths(v) ==
    IF v.t = "Object"
    THEN UNION {{<<k>>} \cup {<<k>> \o p : p \in KeyPaths(v.v[k])} :
                  k \in DOMAIN v.v}
    ELSE {}

\* The value at the end of a path.
RECURSIVE ValueAt(_, _)
ValueAt(v, p) ==
    IF p = <<>> THEN v ELSE ValueAt(v.v[Head(p)], Tail(p))

\* The paths that end in an entry whose key is key.
Hits(v, key) == {p \in KeyPaths(v) : p[Len(p)] = key}

\* p is met before q by a traversal that visits the entries in key order and
\* descends into an entry's value before it moves to the next entry.
RECURSIVE MetBefore(_, _)
MetBefore(p, q) ==
    IF p = <<>> THEN q # <<>>
    ELSE IF q = <<>> THEN FALSE
    ELSE IF Head(p) = Head(q) THEN MetBefore(Tail(p), Tail(q))
    ELSE str_lt(Head(p), Head(q))

\* p is met before q when an Object's own entry under key comes before
\* everything nested in it.
RECURSIVE OwnBefore(_, _, _)
OwnBefore(p, q, key) ==
    IF p = q THEN FALSE
    ELSE IF p = <<key>> THEN TRUE
    ELSE IF q = <<key>> THEN FALSE
    ELSE IF Head(p) = Head(q) THEN OwnBefore(Tail(p), Tail(q), key)
    ELSE str_lt(Head(p), Head(q))

\* The result of a search is the value at the first of the paths hs, or
\* absent when there is none.
IsFirst(found, v, hs, before(_, _)) ==
    IF hs = {} THEN found.t = "None"
    ELSE /\ found.t = "Some"
         /\ \E p \in hs :
              /\ \A q \in hs \ {p} : before(p, q)
              /\ found.v = ValueAt(v, p)

\* C30: search(key) returns the first value whose key equals key met by a
\* depth-first traversal that visits the Object's entries in key order and
\* descends into each entry's value before moving to the next entry; it
\* returns absent when no Object reachable through nested Objects has the
\* key, and absent on any non-Object.
C30_DepthFirst ==
    pc = "searched" =>
        IsFirst(result.v.v[2], value, Hits(value, result.v.v[1]), MetBefore)

\* What the code does instead: an Object's own entry under key is returned
\* before anything nested in an earlier entry.
C30_OwnEntryFirst ==
    pc = "searched" =>
        IsFirst(result.v.v[2], value, Hits(value, result.v.v[1]),
                LAMBDA p, q : OwnBefore(p, q, result.v.v[1]))

\* C30 witness: {"cat":{"mouse":1},"mouse":"c"} has been searched for
\* "mouse" and the search returned "c", not the 1 nested under "cat".
C30_Witness ==
    /\ pc = "searched"
    /\ value = Object(Str(<<"c", "a", "t">>) :>
                        Object(Str(<<"m", "o", "u", "s", "e">>) :> Number(Fin(1, 0)))
                      @@ Str(<<"m", "o", "u", "s", "e">>) :> String(Str(<<"c">>)))
    /\ result.v.v[1] = Str(<<"m", "o", "u", "s", "e">>)
    /\ result.v.v[2] = Some(String(Str(<<"c">>)))


-----------------------------------------------------------------------------
(* find and find_path *)

\* find_path that gives up on an empty path.
RECURSIVE find_path_no_empty(_, _)
find_path_no_empty(v, keys) ==
    IF keys = <<>> THEN None
    ELSE Let(find(v, Head(keys)), LAMBDA t :
           IF t.t = "Some"
           THEN IF Tail(keys) = <<>> THEN t
                ELSE find_path_no_empty(t.v, Tail(keys))
           ELSE None)

\* Json::find_path: target starts at the receiver and is replaced by what
\* find returns for each key in turn; the first None is returned at once.
RECURSIVE find_path(_, _)
find_path(v, keys) ==
    IF keys = <<>> THEN Some(v)
    ELSE Let(find(v, Head(keys)), LAMBDA t :
           IF t.t = "Some" THEN find_path(t.v, Tail(keys)) ELSE None)

MaxFindDepth == 2

MaxPathLen == 2

FindKeys == {Str(<<"c", "a", "t">>), Str(<<"d", "o", "g">>)}

\* The keys asked for: those of the Objects and one that none of them has.
AskedKeys == FindKeys \cup {Str(<<"m", "o", "u", "s", "e">>)}

\* test_find's "cat".
FindLeaves == {String(Str(<<"c", "a", "t">>))}

\* The values nested at most d Objects deep, over the keys FindKeys.
RECURSIVE FindNested(_)
FindNested(d) ==
    IF d = 0 THEN FindLeaves
    ELSE Let(FindNested(d - 1), LAMBDA V :
           FindLeaves \cup
           {Object(m) : m \in UNION {[K -> V] : K \in SUBSET FindKeys}})

\* The documents of test_find and test_find_path are among them.
FindValues == FindNested(MaxFindDepth) \cup {TestSearchValue}

\* The paths of at most n keys.
RECURSIVE PathsOf(_)
PathsOf(n) ==
    IF n = 0 THEN {<<>>}
    ELSE Let(PathsOf(n - 1), LAMBDA P :
           P \cup {<<k>> \o p : k \in AskedKeys, p \in {q \in P : Len(q) = n - 1}})

\* test_find_path's path: dog, cat, mouse.
TestPath ==
    <<Str(<<"d", "o", "g">>), Str(<<"c", "a", "t">>),
      Str(<<"m", "o", "u", "s", "e">>)>>

AskedPaths == PathsOf(MaxPathLen) \cup {TestPath}

InitFind == InitValue(FindValues)

Found(op, arg, found) == [t |-> "Found", v |-> <<op, arg, found>>]

\* value.find(key)
Find(key) ==
    /\ pc = "value"
    /\ result' = Ok(Found("find", <<key>>, find(value, key)))
    /\ pc' = "found"
    /\ UNCHANGED <<input, value, decoderVars, encoderVars>>

\* value.find_path(keys)
FindPath(keys) ==
    /\ pc = "value"
    /\ result' = Ok(Found("find_path", keys, find_path(value, keys)))
    /\ pc' = "found"
    /\ UNCHANGED <<input, value, decoderVars, encoderVars>>

NextFind ==
    \/ \E key \in AskedKeys : Find(key)
    \/ \E keys \in AskedPaths : FindPath(keys)

SpecFind == InitFind /\ [][NextFind]_vars


\* The result of finding is the value at the end of the path p from v when
\* the path leads through Objects that hold its keys, and absent otherwise.
IsValueAt(found, v, p) ==
    IF p = <<>> \/ p \in KeyPaths(v)
    THEN found.t = "Some" /\ found.v = ValueAt(v, p)
    ELSE found.t = "None"

\* C31: find(key) returns the entry's value when the receiver is an Object
\* containing key and absent otherwise; find_path(k1..kn) equals applying
\* find successively for k1, ..., kn starting from the receiver, returning
\* absent as soon as one step is absent (including when an intermediate
\* value is not an Object) and the receiver itself for an empty path.
C31_FindAndFindPath ==
    pc = "found" =>
        /\ IsValueAt(result.v.v[3], value, result.v.v[2])
        /\ result.v.v[1] = "find" =>
             (result.v.v[3].t = "Some") =
                 (value.t = "Object" /\ result.v.v[2][1] \in DOMAIN value.v)

\* C31 witness: the path dog, cat, mouse has been found in
\* {"dog":{"cat":{"mouse":"cheese"}}}.
C31_Witness ==
    /\ pc = "found"
    /\ value = TestSearchValue
    /\ result.v.v[1] = "find_path"
    /\ result.v.v[2] = TestPath
    /\ result.v.v[3].t = "Some"
    /\ result.v.v[3].v = String(Str(<<"c", "h", "e", "e", "s", "e">>))


-----------------------------------------------------------------------------
(* Numbers with exponents of any size, and the encoding of every f64 *)

MaxExpLen == 3

Mantissas ==
    {Str(<<"1">>), Str(<<"0">>), Str(<<"-", "1">>), Str(<<"9">>),
     Str(<<"1", ".", "9">>), Str(<<"0", ".", "0">>)}

ExpMarks ==
    {Str(<<"e">>), Str(<<"E">>), Str(<<"e", "+">>), Str(<<"e", "-">>)}

ExpDigits == {Str(<<"0">>), Str(<<"3">>), Str(<<"8">>), Str(<<"9">>)}

\* A mantissa, an exponent mark and an exponent of 1..MaxExpLen digits.
ExpTexts ==
    {m \o k \o x : m \in Mantissas, k \in ExpMarks,
                   x \in Texts(ExpDigits, MaxExpLen) \ {<<>>}}

\* The values an f64 can hold, of each class.
F64Values ==
    {Number(NaN), Number(Inf(1)), Number(Inf(-1)), Number(Fin(0, 0)),
     Number(Fin(1, 0)), Number(Fin(-15, -1))}

InitFinite == InitText(ExpTexts) \/ InitValue(F64Values)

\* to_writer / to_pretty_writer on a value that was built, not parsed.
EncodeBuilt(sp) == pc = "value" /\ Encode(sp)

NextFinite ==
    DecoderNew \/ Parse \/ \E sp \in EncoderModes : EncodeBuilt(sp)

SpecFinite == InitFinite /\ [][NextFinite]_vars


\* The number a text of digits spells.
RECURSIVE DigitsValue(_)
DigitsValue(s) ==
    IF s = <<>> THEN 0
    ELSE 10 * DigitsValue(SubSeq(s, 1, Len(s) - 1)) + DigitVal(s[Len(s)])

\* The digits at the end of a text.
RECURSIVE LastDigits(_)
LastDigits(s) ==
    IF s # <<>> /\ IsDigit(s[Len(s)])
    THEN LastDigits(SubSeq(s, 1, Len(s) - 1)) \o <<s[Len(s)]>>
    ELSE <<>>

IsFinite(v) == v.t = "Number" => v.v.c = "fin"

\* C32: every Number held in a Value is finite and the encoder never
\* writes a non-finite numeric token: every number the parser returns for
\* a grammatical token, whatever the size of its exponent, is finite, and
\* asking the encoder to emit NaN or an infinity writes no text.
C32_NumbersFinite ==
    /\ pc \in {"done", "done2"} /\ IsOk(result) => IsFinite(result.v)
    /\ pc = "encoded" /\ ~IsFinite(value) => wr = <<>>

\* What the code does instead: a token whose exponent reaches MaxPow10 can
\* give an infinity, or NaN for a zero mantissa, and the encoder writes
\* NaN, inf and -inf as to_str_digits spells them.
C32_ExceptLargeExponents ==
    /\ pc \in {"done", "done2"} /\ IsOk(result) =>
          \/ IsFinite(result.v)
          \/ DigitsValue(LastDigits(input)) >= MaxPow10
    /\ pc = "done" /\ IsOk(result) /\ result.v.t = "Number"
        /\ DigitsValue(LastDigits(input)) > MaxPow10 =>
          \/ result.v.v.c # "fin"
          \/ result.v.v = Fin(0, 0)
    /\ pc = "encoded" /\ ~IsFinite(value) =>
          wr \in {Str(<<"N", "a", "N">>), Str(<<"i", "n", "f">>),
                  Str(<<"-", "i", "n", "f">>)}

\* C32 witness: 1e309 has been parsed to a Number that holds an infinity.
C32_Witness ==
    /\ pc = "done"
    /\ input = Str(<<"1", "e", "3", "0", "9">>)
    /\ IsOk(result)
    /\ result.v = Number(Inf(1))


-----------------------------------------------------------------------------
(* The typed decoder: the stack while values are decoded one after another *)

MaxStackLen == 2

a_key == Str(<<"a">>)
b_key == Str(<<"b">>)

\* Frog("a", 1) as the encoder writes it.
FrogArgsText ==
    Str(<<"{", "QUOTE", "v", "a", "r", "i", "a", "n", "t", "QUOTE", ":",
          "QUOTE", "F", "r", "o", "g", "QUOTE", ",",
          "QUOTE", "f", "i", "e", "l", "d", "s", "QUOTE", ":",
          "[", "QUOTE", "a", "QUOTE", ",", "1", "]", "}">>)

\* The values the decoded documents are made of: null, "Dog", "Frog",
\* [null,"a"], {"a":1,"b":[null]}, {"a":"Dog","b":"Dog"} and the Frog
\* above.
StackLeaves ==
    {Str(<<"n", "u", "l", "l">>),
     Str(<<"QUOTE", "D", "o", "g", "QUOTE">>),
     Str(<<"QUOTE", "F", "r", "o", "g", "QUOTE">>),
     Str(<<"[", "n", "u", "l", "l", ",", "QUOTE", "a", "QUOTE", "]">>),
     Str(<<"{", "QUOTE", "a", "QUOTE", ":", "1", ",", "QUOTE", "b", "QUOTE",
           ":", "[", "n", "u", "l", "l", "]", "}">>),
     Str(<<"{", "QUOTE", "a", "QUOTE", ":", "QUOTE", "D", "o", "g", "QUOTE",
           ",", "QUOTE", "b", "QUOTE", ":", "QUOTE", "D", "o", "g", "QUOTE",
           "}">>),
     FrogArgsText}

\* The texts xs with commas between them.
RECURSIVE Joined(_)
Joined(xs) ==
    IF Len(xs) = 0 THEN <<>>
    ELSE IF Len(xs) = 1 THEN xs[1]
    ELSE xs[1] \o <<C(",")>> \o Joined(Tail(xs))

\* A leaf, or a list of at most MaxStackLen leaves.
StackDocs ==
    StackLeaves
        \cup {<<C("[")>> \o Joined(xs) \o <<C("]")>> :
                xs \in UNION {[1..k -> StackLeaves] : k \in 0..MaxStackLen}}

InitStack == InitText(StackDocs)

\* The types decoded through decode_typed, the types under an Option, the
\* fields a struct's decode reads, and the reads of a primitive value.
StackTypes == {"Json", "str", "int", "Animal", "Vec", "TreeMap"}

StackReads ==
    {<<>>, <<<<a_key, "Json">>>>, <<<<b_key, "Vec">>>>,
     <<<<a_key, "Json">>, <<b_key, "Vec">>>>,
     <<<<b_key, "Json">>, <<a_key, "Json">>>>}

StackKinds == ReadKinds \ {"read_seq"}

\* What a decode does to the decoder, and how the driving program goes
\* on: it stops at the first decode that does not return Ok.
Decoded(how, r) ==
    /\ SetDecoder(r.d)
    /\ result' = IF IsOk(r.r) THEN Ok(Returned(how, r.r.v)) ELSE r.r
    /\ pc' = IF IsOk(r.r) THEN "read" ELSE "failed"
    /\ UNCHANGED <<input, value, encoderVars>>

\* read_seq: the elements of the list on top are offered one by one.
OpenSeq ==
    /\ pc \in {"ready", "read"}
    /\ Decoded("read_seq", read_seq(TheDecoder))

\* Decodable::decode for a value of type T.
DecodeValue(T) ==
    /\ pc \in {"ready", "read"}
    /\ Decoded(T, decode_typed(TheDecoder, T))

\* Decodable::decode for an Option<T>.
DecodeOptional(T) ==
    /\ pc \in {"ready", "read"}
    /\ Decoded("Option", decode_option(TheDecoder, T))

\* The decode of a struct that reads the fields reads.
DecodeFields(reads) ==
    /\ pc \in {"ready", "read"}
    /\ Decoded("Struct", read_struct(TheDecoder, reads))

\* The read of a primitive value.
ReadPrimitive(kind) ==
    /\ pc \in {"ready", "read"}
    /\ Decoded(kind, read_by(TheDecoder, kind))

NextStack ==
    \/ DecoderNew
    \/ OpenSeq
    \/ \E T \in StackTypes : DecodeValue(T)
    \/ \E T \in OptTypes : DecodeOptional(T)
    \/ \E reads \in StackReads : DecodeFields(reads)
    \/ \E kind \in StackKinds : ReadPrimitive(kind)

SpecStack == InitStack /\ [][NextStack]_vars


\* The number of arguments the variant called name is declared with; -1
\* when the enum has no such variant.
DeclaredArgs(decl, name) ==
    IF \E i \in DOMAIN decl : decl[i].name = name
    THEN Len(decl[CHOOSE i \in DOMAIN decl : decl[i].name = name].args)
    ELSE -1

\* v holds exactly the arguments its variant is declared with: the reads
\* of the variant's decode are the reads v offers.
HoldsItsArguments(v) ==
    CASE v.t = "String" -> DeclaredArgs(Animal, v.v) = 0
      [] v.t = "Object" ->
            /\ variant_key \in DOMAIN v.v
            /\ fields_key \in DOMAIN v.v
            /\ v.v[variant_key].t = "String"
            /\ v.v[fields_key].t = "List"
            /\ DeclaredArgs(Animal, v.v[variant_key].v)
                  = Len(v.v[fields_key].v)
      [] OTHER -> FALSE

\* The reads of a decode of the type how are the reads v offers.
OfferedReads(how, v) ==
    CASE how = "Animal" -> HoldsItsArguments(v)
      [] how = "TreeMap" ->
            v.t = "Object" /\ \A k \in DOMAIN v.v : HoldsItsArguments(v.v[k])
      [] OTHER -> TRUE

\* The stack before the next value is decoded, the value on top: before
\* the first pop it is the root alone.
StackBefore ==
    IF parsed THEN stack
    ELSE IF IsOk(from_str(input)) THEN <<from_str(input).v>> ELSE <<>>

\* C33: decoding one complete value (a primitive, an option, a sequence
\* with all its elements, a map with all its keys and values, a struct with
\* any subset of its fields, or a variant with all its arguments) by a
\* consumer that issues exactly the offered reads lowers the depth of the
\* stack by exactly one and leaves every entry below unchanged; after the
\* root value is decoded the stack is empty.
C33_StackDiscipline ==
    [][/\ pc \in {"ready", "read"}
       /\ pc' = "read"
       /\ IsOk(result')
       /\ result'.v.t # "read_seq"
       /\ StackBefore # <<>>
       /\ OfferedReads(result'.v.t, StackBefore[Len(StackBefore)])
       => /\ Len(stack') = Len(StackBefore) - 1
          /\ stack' = SubSeq(StackBefore, 1, Len(StackBefore) - 1)
          /\ ~parsed => stack' = <<>>]_vars

\* C33 witness: the list [{"a":"Dog","b":"Dog"}, null] was opened,
\* its first element was decoded as a map of Animals, and null alone is
\* left on the stack.
C33_Witness ==
    /\ pc = "read"
    /\ IsOk(result)
    /\ result.v.t = "TreeMap"
    /\ Len(result.v.v.v) = 2
    /\ stack = <<Null>>


-----------------------------------------------------------------------------
(* The decoder's two states: unparsed and parsed *)

\* The scanner: what only the parser moves.
Scanner == <<rdr, ch, line, col>>

\* The decoder Decoder::new builds on the document, parsed to the end.
ParsedDecoder == parse(Decoder_new(input))

\* C34: the decoder has two states, unparsed and parsed: the document is
\* parsed at most once, by the first pop, which pushes the root and moves
\* to parsed; the parsed flag never returns to false and no later read
\* invokes the parser again, whether the first parse succeeded or failed;
\* when the parse fails no Value is pushed on the stack and the error is
\* returned to the reader.
C34_ParsedOnce ==
    [][/\ pc \in {"ready", "read"} /\ ~parsed =>
            /\ parsed'
            /\ Scanner' = <<ParsedDecoder.d.rdr, ParsedDecoder.d.ch,
                            ParsedDecoder.d.line, ParsedDecoder.d.col>>
            /\ IsOk(ParsedDecoder.r) =>
                  \E kind \in ReadKinds :
                      Let(read_by(stack_push(ParsedDecoder.d,
                                             ParsedDecoder.r.v), kind),
                          LAMBDA r :
                              /\ stack' = r.d.stack
                              /\ IsOk(r.r) = IsOk(result')
                              /\ IsOk(r.r) => result'.v = Returned(kind, r.r.v))
            /\ ~IsOk(ParsedDecoder.r) =>
                  /\ stack' = <<>>
                  /\ result' = ParsedDecoder.r
       /\ pc \in {"ready", "read"} /\ parsed =>
            /\ parsed'
            /\ Scanner' = Scanner]_vars

\* C34 witness: the parse of the first read failed, and a later read found
\* the decoder parsed and the stack empty.
C34_Witness ==
    /\ pc = "failed"
    /\ parsed
    /\ IsErr(ParsedDecoder.r)
    /\ stack = <<>>
    /\ result = Failure


-----------------------------------------------------------------------------
(* The Encoder call by call: closures that return Ok or an error *)

\* The error a closure returns: an io::IoError.
IoError == [kind |-> "IoError"]

\* emit_struct from the return of f, but the brace is closed whatever f
\* returned.
emit_struct_return_always(e, r) == Done(emit_struct_close(e), r)

\* emit_struct (and emit_map, which calls it) from the return of f with the
\* result r: try!(f(self)) returns r at once when it is an error.
emit_struct_return(e, r) ==
    IF IsOk(r) THEN Done(emit_struct_close(e), Ok(Unit)) ELSE Done(e, r)

\* emit_seq with len # 0 from the return of f with the result r.
emit_seq_return(e, r) ==
    IF IsOk(r) THEN Done(emit_seq_close(e), Ok(Unit)) ELSE Done(e, r)

\* emit_map_elt_key up to the call of f on the check_encoder.
emit_map_elt_key_open(e, idx) ==
    LET e1 == IF idx # 0 THEN write(e, <<C(",")>>) ELSE e
    IN  IF e1.spaces > 0
        THEN write(e1, <<C("LF")>> \o spaces_str(e1.indent))
        ELSE e1

MaxEmitCalls == 4

\* The calls whose closure takes further calls.
EmitOps == {"emit_struct", "emit_map", "emit_seq"}

\* The keys of a map: a string, and a list of two numbers.
EmitKeys ==
    {String(Str(<<"a">>)), List(<<Number(Fin(1, 0)), Number(Fin(2, 0))>>)}

\* A call whose closure is running: the indent on its entry and the
\* number of calls its closure has made.
Frame(op, entry) == [op |-> op, entry |-> entry, idx |-> 0]

\* The calls on an encoder: those whose closure is running, the outermost
\* first, and the number of calls made so far.
Calls(open, n) == [open |-> open, calls |-> n]

InitEmit == InitValue({Calls(<<>>, 0)})

TheEncoder == Encoder(wr, spaces, indent)

\* Encoder::new, Encoder::new_pretty (with_spaces).
EncoderNew(sp) ==
    /\ pc = "value"
    /\ value.calls = 0
    /\ SetEncoder(Encoder(<<>>, sp, 0))
    /\ pc' = "emit"
    /\ UNCHANGED <<input, result, value, decoderVars>>

\* What the running closure calls first for its next element: nothing at
\* the top, emit_seq_elt in an emit_seq, emit_struct_field in an
\* emit_struct, emit_map_elt_key (whose closure encodes key) and
\* emit_map_elt_val in an emit_map; each up to the call of its closure.
element_open(e, open, key) ==
    IF open = <<>> THEN e
    ELSE Let(open[Len(open)], LAMBDA top :
         CASE top.op = "emit_seq" -> emit_seq_elt(e, top.idx)
           [] top.op = "emit_struct" ->
                emit_struct_field(e, Str(<<"a">>), top.idx)
           [] top.op = "emit_map" ->
                emit_map_elt_key(e, top.idx, encode(Encoder_new, key).wr))

\* The calls after one more call of the running closure.
Called(c) ==
    IF c.open = <<>> THEN Calls(<<>>, c.calls + 1)
    ELSE Calls([c.open EXCEPT ![Len(c.open)].idx = @ + 1], c.calls + 1)

\* A call may be made: a closure is running, or nothing was emitted yet.
MayCall ==
    /\ pc = "emit"
    /\ value.calls < MaxEmitCalls
    /\ value.open = <<>> => value.calls = 0

\* How the program goes on when a call at the top has returned r.
AfterReturn(open, r) ==
    IF open # <<>> THEN (IF IsOk(r) THEN "emit" ELSE "error")
    ELSE IF IsOk(r) THEN "finished" ELSE "failed"

\* emit_nil, as the next element.
EmitNil(key) ==
    /\ MayCall
    /\ SetEncoder(emit_nil(element_open(TheEncoder, value.open, key)))
    /\ value' = Called(value)
    /\ result' = Ok(Unit)
    /\ pc' = AfterReturn(value.open, Ok(Unit))
    /\ UNCHANGED <<input, decoderVars>>

\* emit_seq with len = 0, as the next element.
EmitSeqEmpty(key) ==
    /\ MayCall
    /\ SetEncoder(emit_seq_empty(element_open(TheEncoder, value.open, key)))
    /\ value' = Called(value)
    /\ result' = Ok(Unit)
    /\ pc' = AfterReturn(value.open, Ok(Unit))
    /\ UNCHANGED <<input, decoderVars>>

\* emit_struct, emit_map or emit_seq with len # 0, as the next element, up
\* to the call of its closure.
EmitOpen(op, key) ==
    /\ MayCall
    /\ Let(element_open(TheEncoder, value.open, key), LAMBDA e :
           /\ SetEncoder(IF op = "emit_seq" THEN emit_seq_open(e)
                         ELSE IF op = "emit_map" THEN emit_map_open(e)
                         ELSE emit_struct_open(e))
           /\ value' = Calls(Append(Called(value).open, Frame(op, e.indent)),
                             value.calls + 1))
    /\ pc' = "emit"
    /\ UNCHANGED <<input, result, decoderVars>>

\* The running closure returns an error of its own.
BodyFails ==
    /\ pc = "emit"
    /\ value.open # <<>>
    /\ result' = Err(IoError)
    /\ pc' = "error"
    /\ UNCHANGED <<input, value, decoderVars, encoderVars>>

\* In an emit_map, the closure of emit_map_elt_key returns an error.
KeyFails ==
    /\ MayCall
    /\ value.open # <<>>
    /\ value.open[Len(value.open)].op = "emit_map"
    /\ SetEncoder(emit_map_elt_key_open(TheEncoder,
                                       value.open[Len(value.open)].idx))
    /\ value' = Called(value)
    /\ result' = Err(IoError)
    /\ pc' = "error"
    /\ UNCHANGED <<input, decoderVars>>

\* The running closure returns, Ok(()) or the error it got: the innermost
\* call goes on from the return of f.  (emit_seq_elt, emit_struct_field and
\* emit_map_elt_val return what their closure returned.)
EmitReturn ==
    /\ pc \in {"emit", "error"}
    /\ value.open # <<>>
    /\ Let(value.open[Len(value.open)], LAMBDA top :
       Let(IF pc = "emit" THEN Ok(Unit) ELSE result, LAMBDA r :
       Let(IF top.op = "emit_seq" THEN emit_seq_return(TheEncoder, r)
           ELSE emit_struct_return(TheEncoder, r), LAMBDA x :
           /\ SetEncoder(x.d)
           /\ result' = x.r
           /\ value' = Calls(SubSeq(value.open, 1, Len(value.open) - 1),
                             value.calls)
           /\ pc' = AfterReturn(value'.open, x.r))))
    /\ UNCHANGED <<input, decoderVars>>

NextEmit ==
    \/ \E sp \in EncoderModes : EncoderNew(sp)
    \/ \E key \in EmitKeys : EmitNil(key)
    \/ \E key \in EmitKeys : EmitSeqEmpty(key)
    \/ \E op \in EmitOps, key \in EmitKeys : EmitOpen(op, key)
    \/ BodyFails
    \/ KeyFails
    \/ EmitReturn

SpecEmit == InitEmit /\ [][NextEmit]_vars


\* Closures that fail on either side: the emit calls above, and the structs
\* decoded field by field from documents whose fields are not all of the
\* type asked for.
InitBodies == InitEmit \/ InitStruct

NextBodies == NextEmit \/ NextStruct

SpecBodies == InitBodies /\ [][NextBodies]_vars


\* The error of a closure decoding a Vec from a value that is not a List.
IsListExpected(r) ==
    /\ IsErr(r)
    /\ r.v.kind = "ExpectedError"
    /\ r.v.what = "List"

\* C35: if the body callback passed to any emit_* or read_* operation
\* returns an error, the operation returns that same error unchanged and
\* does nothing further: the encoder writes no more text (no separator,
\* newline or closing bracket) and the decoder pushes or pops nothing more
\* after the body returned.
C35_BodyErrors ==
    [][/\ pc = "error" =>
            /\ wr' = wr
            /\ result' = result
            /\ pc' \in {"error", "failed"}
       /\ pc = "emit" /\ pc' = "error" =>
            /\ result' = Err(IoError)
            /\ \/ wr' = wr
               \/ /\ spaces = 0
                  /\ wr' \in {wr, wr \o <<C(",")>>}
               \/ /\ spaces > 0
                  /\ \E sep \in {<<>>, <<C(",")>>} :
                        wr' = wr \o sep \o <<C("LF")>> \o spaces_str(indent)
       /\ pc = "ready" /\ IsListExpected(result') =>
            /\ value.t = "Object"
            /\ \E k \in DOMAIN value.v :
                  /\ value.v[k].t # "List"
                  /\ result'.v.got = to_str(value.v[k])
            /\ stack' = <<>>]_vars

\* C35 witness: an emit_struct holds, under its field "a", an emit_seq
\* whose closure returned an error; both calls have returned it and
\* nothing was written after the opening bracket.
C35_Witness ==
    /\ pc = "failed"
    /\ spaces = 0
    /\ result = Err(IoError)
    /\ wr = Str(<<"{", "QUOTE", "a", "QUOTE", ":", "[">>)

\* Every space of the text follows a newline or a space, and no string of
\* the text holds an escaped newline: what the encoder adds for
\* indentation is in no key.
NoIndentationInKeys ==
    \A i \in DOMAIN wr :
        /\ wr[i] = C(" ") => i > 1 /\ wr[i - 1] \in {C("LF"), C(" ")}
        /\ wr[i] = C("n") /\ i > 1 => wr[i - 1] # C("BSL")

\* C36: indent starts at 0, is at every moment equal to spaces multiplied
\* by the number of currently open emit_struct / emit_map / non-empty
\* emit_seq calls, never underflows on the closing subtraction, and every
\* such call that succeeds returns with indent equal to its value on
\* entry; the temporary encoder used for a map key is compact, so a key's
\* text never contains indentation or newlines added by the encoder.
C36_IndentInvariant ==
    pc \in {"emit", "error", "finished", "failed"} =>
        /\ indent = spaces * Len(value.open)
        /\ \A i \in DOMAIN value.open : value.open[i].entry = spaces * (i - 1)
        /\ NoIndentationInKeys

\* What the code keeps instead: the invariant holds until a closure returns
\* an error; a call that returns an error leaves indent as its closure
\* left it.
C36_UntilAnError ==
    /\ pc \in {"emit", "finished"} =>
        /\ indent = spaces * Len(value.open)
        /\ \A i \in DOMAIN value.open : value.open[i].entry = spaces * (i - 1)
    /\ pc \in {"emit", "error", "finished", "failed"} =>
        /\ indent >= spaces * Len(value.open)
        /\ NoIndentationInKeys

\* C36 witness: a pretty encoder's emit_struct has returned its closure's
\* error: no call is open and indent is 2.
C36_Witness ==
    /\ pc = "failed"
    /\ spaces = 2
    /\ value.open = <<>>
    /\ indent = 2


-----------------------------------------------------------------------------
(* The end of the input: documents cut short at every place *)

MaxEndLen == 3

\* Pieces that put the end of the input inside a literal, a number, a
\* string, a \u escape, a list and an object.
EndPieces ==
    {Str(<<"n", "u", "l">>), Str(<<"l">>), Str(<<"1">>), Str(<<".">>),
     Str(<<"e">>), Str(<<"QUOTE">>), Str(<<"BSL", "u", "0", "0">>),
     Str(<<"[">>), Str(<<",">>), Str(<<"{">>), Str(<<":">>),
     Str(<<" ">>), Str(<<"LF">>)}

\* A document with every construct, on two lines.
EndExample ==
    Str(<<"{", "QUOTE", "a", "BSL", "u", "0", "0", "4", "1", "QUOTE", ":",
          "[", "1", ".", "5", "e", "1", ",", "LF", "t", "r", "u", "e", " ",
          "]", ",", "QUOTE", "QUOTE", ":", "{", "}", "}", "LF">>)

\* The example cut short after each of its characters.
EndPrefixes == {Prefix(EndExample, n) : n \in 0..Len(EndExample)}

InitEnd == InitText(Texts(EndPieces, MaxEndLen) \cup EndPrefixes)

SpecEnd == InitEnd /\ [][NextParse]_vars

\* The messages of the errors raised at the end of the input.
EofMessages ==
    {"EOF while parsing value", "EOF while parsing string",
     "EOF while parsing list", "EOF while parsing object"}

\* C38: the scanner never advances past the end of the input: what is left
\* to read is always the rest of the document after the current character,
\* line and col are those of the current character (of the place after the
\* last character, at the end of the input, and of no place further), and
\* every end-of-input error carries the column of the last character plus
\* one.
C38_NeverPastEnd ==
    pc \in {"ready", "done"} =>
        /\ rdr = SubSeq(input, Len(input) - Len(rdr) + 1, Len(input))
        /\ ch = EOF => rdr = <<>>
        /\ ch # EOF => Here(TheDecoder) \in DOMAIN input
                       /\ ch = input[Here(TheDecoder)]
        /\ line = LineAt(input, Here(TheDecoder))
        /\ col = ColAt(input, Here(TheDecoder))
        /\ pc = "done" /\ IsErr(result) /\ result.v.msg \in EofMessages =>
              /\ ch = EOF
              /\ result.v.line = LineAt(input, Len(input) + 1)
              /\ result.v.col = ColAt(input, Len(input)) + 1

\* C38 witness: the input ends inside a string on the second line; the
\* error is at the column after the last character.
C38_Witness ==
    /\ pc = "done"
    /\ input = Str(<<"LF", "QUOTE", "1">>)
    /\ ch = EOF
    /\ col = 4
    /\ result = Err(ParseError("EOF while parsing string", 2, 4))


-----------------------------------------------------------------------------
(* Termination: one iteration of each loop of the parser *)

\* An iteration ends by going round the loop again, with the scanner d and
\* the loop's variables acc, or by leaving the loop with r.
Again(d, acc) == [t |-> "again", d |-> d, acc |-> acc]

Out(r) == [t |-> "out", r |-> r]

\* while self.ch_is(' ') || ... { self.bump(); }
whitespace_iter(d) ==
    IF IsWhitespace(d.ch) THEN Again(bump(d), <<>>) ELSE Out(d)

\* The digit loop without self.bump().
digits_iter_no_bump(d, res) ==
    IF ~eof(d) /\ IsDigit(ch_or_null(d))
    THEN Again(d, res * 10 + DigitVal(d.ch))
    ELSE Out(res)

\* while !self.eof() { match self.ch_or_null() { c @ '0' .. '9' => { ...;
\* self.bump(); } _ => break } }: the loop of parse_integer and of
\* parse_exponent, res the number read so far.
digits_iter(d, res) ==
    IF ~eof(d) /\ IsDigit(ch_or_null(d))
    THEN Again(bump(d), res * 10 + DigitVal(d.ch))
    ELSE Out(res)

\* The same loop in parse_decimal, where the digits read are counted.
decimal_iter(d, m, s) ==
    Let(digits_iter(d, m), LAMBDA it :
        IF it.t = "again" THEN Again(it.d, <<it.acc, s + 1>>)
        ELSE Out(<<m, s>>))

\* while i < 4u && !self.eof() { self.bump(); ... }
u_iter(d, i, n) ==
    IF i < 4 /\ ~eof(d) THEN
        Let(bump(d), LAMBDA d1 :
            IF IsHex(ch_or_null(d1))
            THEN Again(d1, <<i + 1, n * 16 + HexVal(d1.ch)>>)
            ELSE Out([d |-> d1, i |-> i, n |-> n, bad |-> TRUE]))
    ELSE Out([d |-> d, i |-> i, n |-> n, bad |-> FALSE])

\* loop { self.bump(); if self.eof() { return ... } ... } of parse_str.
str_iter(d, escape, res) ==
    Let(bump(d), LAMBDA d1 :
    IF eof(d1) THEN Out(error(d1, "EOF while parsing string"))
    ELSE IF escape THEN
        IF ch_or_null(d1) = C("u") THEN
            Let(u_digits(d1, 0, 0), LAMBDA u :
                IF u.bad
                THEN Out(error(u.d, "invalid \\u escape (unrecognized hex)"))
                ELSE IF u.i # 4
                THEN Out(error(u.d, "invalid \\u escape (not four digits)"))
                ELSE IF IsSurrogate(u.n) THEN Out(Done(u.d, Failure))
                ELSE Again(u.d, <<FALSE, Append(res, u.n)>>))
        ELSE IF EscapeChar(ch_or_null(d1)) # EOF
            THEN Again(d1, <<FALSE, Append(res, EscapeChar(d1.ch))>>)
        ELSE Out(error(d1, "invalid escape"))
    ELSE IF ch_is(d1, C("BSL")) THEN Again(d1, <<TRUE, res>>)
    ELSE IF ch_is(d1, C("QUOTE")) THEN Out(Done(bump(d1), Ok(res)))
    ELSE Again(d1, <<FALSE, Append(res, d1.ch)>>))

\* loop { match self.parse_value() ... } of parse_list.
list_iter(d, values) ==
    Let(parse_value(d), LAMBDA v :
    IF ~IsOk(v.r) THEN Out(v)
    ELSE
    Let(parse_whitespace(v.d), LAMBDA d1 :
    IF eof(d1) THEN Out(error(d1, "EOF while parsing list"))
    ELSE IF ch_is(d1, C(","))
        THEN Again(bump(d1), Append(values, v.r.v))
    ELSE IF ch_is(d1, C("]"))
        THEN Out(Done(bump(d1), Ok(List(Append(values, v.r.v)))))
    ELSE Out(error(d1, "expected ',' or ']'"))))

\* An iteration of the loop of parse_object up to the call of parse_value:
\* the key, and the scanner after the colon.
object_key(d) ==
    IF eof(d) THEN error(d, "EOF while parsing object")
    ELSE
    Let(parse_whitespace(d), LAMBDA d1 :
    IF ~ch_is(d1, C("QUOTE")) THEN error(d1, "key must be a string")
    ELSE
    Let(parse_str(d1), LAMBDA key :
    IF ~IsOk(key.r) THEN key
    ELSE
    Let(parse_whitespace(key.d), LAMBDA d2 :
    IF ~ch_is(d2, C(":")) THEN
        IF eof(d2) THEN error(d2, "EOF while parsing object")
        ELSE error(d2, "expected ':'")
    ELSE Done(bump(d2), key.r))))

\* while !self.eof() { ... } of parse_object.
object_iter(d, values) ==
    Let(object_key(d), LAMBDA key :
    IF ~IsOk(key.r) THEN Out(key)
    ELSE
    Let(parse_value(key.d), LAMBDA v :
    IF ~IsOk(v.r) THEN Out(v)
    ELSE
    Let(parse_whitespace(v.d), LAMBDA d3 :
    IF ch_or_null(d3) = C(",")
        THEN Again(bump(d3), MapInsert(values, key.r.v, v.r.v))
    ELSE IF ch_or_null(d3) = C("}")
        THEN Out(Done(bump(d3),
                      Ok(Object(MapInsert(values, key.r.v, v.r.v)))))
    ELSE IF eof(d3) THEN Out(error(d3, "EOF while parsing object"))
    ELSE Out(error(d3, "expected ',' or '}'")))))

Max(a, b) == IF a >= b THEN a ELSE b

\* How many calls of parse_value are nested inside the call parse_value(d)
\* at the deepest: the calls a list or an object makes for its values.
RECURSIVE value_depth(_)
RECURSIVE list_depth(_)
RECURSIVE object_depth(_)

value_depth(d0) ==
    Let(parse_whitespace(d0), LAMBDA d :
    IF ch_or_null(d) = C("[") THEN
        Let(parse_whitespace(bump(d)), LAMBDA d1 :
            IF ch_is(d1, C("]")) THEN 0 ELSE list_depth(d1))
    ELSE IF ch_or_null(d) = C("{") THEN
        Let(parse_whitespace(bump(d)), LAMBDA d1 :
            IF ch_is(d1, C("}")) THEN 0 ELSE object_depth(d1))
    ELSE 0)

list_depth(d) ==
    Let(list_iter(d, <<>>), LAMBDA it :
        Max(1 + value_depth(d),
            IF it.t = "again" THEN list_depth(it.d) ELSE 0))

object_depth(d) ==
    Let(object_key(d), LAMBDA key :
    IF ~IsOk(key.r) THEN 0
    ELSE
    Let(object_iter(d, EmptyMap), LAMBDA it :
        Max(1 + value_depth(key.d),
            IF it.t = "again" THEN object_depth(it.d) ELSE 0)))

MaxTermLen == 2

TermPieces ==
    {Str(<<" ">>), Str(<<"1", "2">>), Str(<<".">>), Str(<<"e">>),
     Str(<<"QUOTE">>), Str(<<"BSL", "u", "0", "0", "4", "1">>),
     Str(<<"[">>), Str(<<"]">>), Str(<<",">>), Str(<<"{">>), Str(<<"}">>),
     Str(<<":">>), Str(<<"n", "u", "l", "l">>)}

\* A list of lists with brackets inside a string.
TermExample ==
    Str(<<"[", "[", "QUOTE", "]", "BSL", "QUOTE", "]", "QUOTE", ",", "[",
          "{", "QUOTE", "a", "QUOTE", ":", "[", "1", "]", "}", "]", "]",
          ",", "1", "e", "2", "]">>)

TermDocs ==
    Texts(TermPieces, MaxTermLen) \cup EndPrefixes
        \cup {Prefix(TermExample, n) : n \in 0..Len(TermExample)}

InitTerm == InitText(TermDocs)

\* Decoder::new, then parse from the first character or, after bumps, from
\* any other.
NextTerm == DecoderNew \/ Bump \/ Parse

\* The step of Parse as pc shows it: no other action takes pc from "ready"
\* to "done", and Parse can be taken wherever pc is "ready".
ParseReturns == pc = "ready" /\ pc' = "done"

\* Nothing but the parser runs between Decoder::new and the return of
\* parse: each of the two is taken once it can be.
SpecTerm ==
    InitTerm /\ [][NextTerm]_vars
        /\ WF_vars(DecoderNew) /\ WF_pc(ParseReturns)

\* What the scanner d has not advanced over: the current character and
\* what follows it.
Remaining(d) == IF eof(d) THEN <<>> ELSE <<d.ch>> \o d.rdr

\* An iteration that goes round again leaves less to advance over.
Advances(d, it) == it.t = "again" => Len(Remaining(it.d)) < Len(Remaining(d))

\* The most '[' and '{' open at once in s from index i on, with open of
\* them open at i; the brackets inside strings do not count.
RECURSIVE NestingFrom(_, _, _, _, _)
NestingFrom(s, i, inStr, esc, open) ==
    IF i > Len(s) THEN open
    ELSE IF inStr THEN
        NestingFrom(s, i + 1, esc \/ s[i] # C("QUOTE"),
                    ~esc /\ s[i] = C("BSL"), open)
    ELSE IF s[i] = C("QUOTE") THEN NestingFrom(s, i + 1, TRUE, FALSE, open)
    ELSE IF s[i] \in {C("["), C("{")}
        THEN Max(open + 1, NestingFrom(s, i + 1, FALSE, FALSE, open + 1))
    ELSE IF s[i] \in {C("]"), C("}")} /\ open > 0
        THEN Max(open, NestingFrom(s, i + 1, FALSE, FALSE, open - 1))
    ELSE Max(open, NestingFrom(s, i + 1, FALSE, FALSE, open))

Nesting(s) == NestingFrom(s, 1, FALSE, FALSE, 0)

\* Every loop, entered with the scanner d, does what one iteration and then
\* the loop again do, and the iteration advances the scanner or leaves.
LoopsAdvance(d) ==
    /\ Let(whitespace_iter(d), LAMBDA it :
           /\ Advances(d, it)
           /\ parse_whitespace(d) =
                  IF it.t = "again" THEN parse_whitespace(it.d) ELSE it.r)
    /\ Let(digits_iter(d, 0), LAMBDA it :
           /\ Advances(d, it)
           /\ integer_digits(d, 0).res =
                  IF it.t = "again" THEN integer_digits(it.d, it.acc).res
                  ELSE it.r
           /\ exponent_digits(d, 0).exp =
                  IF it.t = "again" THEN exponent_digits(it.d, it.acc).exp
                  ELSE it.r)
    /\ Let(decimal_iter(d, 0, 0), LAMBDA it :
           /\ Advances(d, it)
           /\ Let(decimal_digits(d, 0, 0), LAMBDA l : <<l.m, l.s>>) =
                  IF it.t = "again"
                  THEN Let(decimal_digits(it.d, it.acc[1], it.acc[2]),
                           LAMBDA l : <<l.m, l.s>>)
                  ELSE it.r)
    /\ \A i \in 0..4 :
           Let(u_iter(d, i, 0), LAMBDA it :
               /\ Advances(d, it)
               /\ u_digits(d, i, 0) =
                      IF it.t = "again"
                      THEN u_digits(it.d, it.acc[1], it.acc[2])
                      ELSE it.r)
    /\ \A escape \in BOOLEAN :
           Let(str_iter(d, escape, <<>>), LAMBDA it :
               /\ Advances(d, it)
               /\ str_loop(d, escape, <<>>) =
                      IF it.t = "again"
                      THEN str_loop(it.d, it.acc[1], it.acc[2])
                      ELSE it.r)
    /\ Let(list_iter(d, <<>>), LAMBDA it :
           /\ Advances(d, it)
           /\ list_loop(d, <<>>) =
                  IF it.t = "again" THEN list_loop(it.d, it.acc) ELSE it.r)
    /\ Let(object_iter(d, EmptyMap), LAMBDA it :
           /\ Advances(d, it)
           /\ object_loop(d, EmptyMap) =
                  IF it.t = "again" THEN object_loop(it.d, it.acc) ELSE it.r)

\* C37 (state part): wherever the scanner is, an iteration of each loop
\* entered there advances it or leaves the loop, and the calls of
\* parse_value nested inside one another are at most as many as the '['
\* and '{' open at once in what is left of the input.
C37_LoopsAdvance ==
    pc = "ready" =>
        /\ parse(TheDecoder).d.parsed
        /\ LoopsAdvance(TheDecoder)
        /\ value_depth(TheDecoder) <= Nesting(Remaining(TheDecoder))

\* C37: the parser terminates on every document, every iteration of each
\* of its loops advances the scanner by at least one character or returns,
\* and the recursion of parse_value is never deeper than the nesting of
\* '[' and '{' in the input.
C37_Terminates == <>(pc = "done") /\ [](C37_LoopsAdvance)

\* C37 witness: the parse of the example is over; its lists and its object
\* are nested five deep, one inside the other.
C37_Witness ==
    /\ pc = "done"
    /\ input = TermExample
    /\ IsOk(result)
    /\ Nesting(input) = 5
    /\ value_depth(Decoder_new(input)) = 5
    /\ list_iter(Decoder_new(Tail(input)), <<>>).t = "again"


-----------------------------------------------------------------------------
(* The typed decoder: closures that read fewer or more values than a list
   holds *)

MaxArityLen == 2

\* null and 1
ArityLeaves == {Str(<<"n", "u", "l", "l">>), Str(<<"1">>)}

AritySeqs == UNION {[1..k -> ArityLeaves] : k \in 0..MaxArityLen}

\* A list, the variant Frog with a list of arguments of any length, and
\* the variant Dog written as a string.
ArityBodies ==
    {<<C("[")>> \o Joined(xs) \o <<C("]")>> : xs \in AritySeqs}
        \cup {Str(<<"{", "QUOTE", "v", "a", "r", "i", "a", "n", "t", "QUOTE",
                    ":", "QUOTE", "F", "r", "o", "g", "QUOTE", ",",
                    "QUOTE", "f", "i", "e", "l", "d", "s", "QUOTE", ":", "[">>)
                \o Joined(xs) \o Str(<<"]", "}">>) : xs \in AritySeqs}
        \cup {Str(<<"QUOTE", "D", "o", "g", "QUOTE">>)}

\* A list whose first element is one of the bodies; the elements after it
\* are its siblings.
ArityDocs ==
    {<<C("[")>> \o Joined(<<b>> \o xs) \o <<C("]")>> :
        b \in ArityBodies, xs \in AritySeqs}

\* value holds what the closure in progress was given: the elements of
\* its list, the siblings under them, the reads since it was called and
\* the reads it had issued when it returned.
InitArity == InitText(ArityDocs)

\* The stack from its top to its bottom.
TopFirst(s) == [i \in 1..Len(s) |-> s[Len(s) + 1 - i]]

\* The elements the value v offers to the closure: those of a list, the
\* arguments of a variant written as an object, none for one written as a
\* string.
ElementsOf(v) ==
    IF v.t = "List" THEN v.v
    ELSE IF v.t = "Object" /\ fields_key \in DOMAIN v.v
         THEN v.v[fields_key].v
    ELSE <<>>

ArityReads == SeqReads \cup {"read_enum_variant"}

open_by(d, via) ==
    IF via = "read_enum_variant"
    THEN read_enum_variant(d, variant_names(Animal))
    ELSE read_seq_by(d, via)

\* read_seq on the document: its elements go on the stack.
OpenRoot ==
    /\ pc = "ready"
    /\ Let(read_seq(TheDecoder), LAMBDA r :
           /\ SetDecoder(r.d)
           /\ result' = r.r
           /\ pc' = IF IsOk(r.r) THEN "outer" ELSE "failed")
    /\ UNCHANGED <<input, value, encoderVars>>

\* read_seq, read_tuple, read_tuple_struct or read_enum_variant on the
\* first element, up to the call of the closure.
OpenBody(via) ==
    /\ pc = "outer"
    /\ Let(open_by(TheDecoder, via), LAMBDA r :
           /\ SetDecoder(r.d)
           /\ result' = r.r
           /\ pc' = IF IsOk(r.r) THEN "body" ELSE "failed")
    /\ value' = [list |-> ElementsOf(stack[Len(stack)]),
                 siblings |-> Tail(TopFirst(stack)),
                 reads |-> 0, issued |-> 0]
    /\ UNCHANGED <<input, encoderVars>>

\* read_seq_elt, read_tuple_arg or read_enum_variant_arg with the decode of
\* a Json as its closure, inside the closure or after it has returned:
\* the methods only call their closure.
ReadElement ==
    /\ pc \in {"body", "after"}
    /\ Let(decode_json(TheDecoder), LAMBDA r :
           /\ SetDecoder(r.d)
           /\ result' = IF IsOk(r.r) THEN Ok(Returned("element", r.r.v))
                        ELSE r.r
           /\ pc' = IF IsOk(r.r) THEN pc ELSE "failed")
    /\ value' = [value EXCEPT !.reads = value.reads + 1]
    /\ UNCHANGED <<input, encoderVars>>

\* The return of the closure, but the elements it left unread are taken
\* off the stack.
BodyReturnsDiscarding ==
    /\ pc = "body"
    /\ pc' = "after"
    /\ stack' = IF value.reads >= Len(value.list) THEN stack
                ELSE SubSeq(stack, 1,
                            Len(stack) - (Len(value.list) - value.reads))
    /\ value' = [value EXCEPT !.issued = value.reads, !.reads = Len(value.list)]
    /\ UNCHANGED <<input, rdr, ch, line, col, parsed, result, encoderVars>>

\* The return of the closure: read_seq and read_enum_variant return what
\* f returns, whatever f read.
BodyReturns ==
    /\ pc = "body"
    /\ pc' = "after"
    /\ value' = [value EXCEPT !.issued = value.reads]
    /\ UNCHANGED <<input, result, decoderVars, encoderVars>>

NextArity ==
    \/ DecoderNew
    \/ OpenRoot
    \/ \E via \in ArityReads : OpenBody(via)
    \/ ReadElement
    \/ BodyReturns

SpecArity == InitArity /\ [][NextArity]_vars

\* The values the reads of the closure and after it find, in order: the
\* elements, then the siblings.
Upcoming(g) == g.list \o g.siblings

\* What C39 says of one step.
C39_Step ==
    /\ pc = "outer" /\ pc' = "body" =>
          TopFirst(stack') = Upcoming(value')
    /\ pc = "body" /\ pc' = "after" =>
          /\ stack' = stack
          /\ value'.issued = value.reads
    /\ pc \in {"body", "after"} /\ pc' = pc =>
          /\ value.reads < Len(Upcoming(value))
          /\ TopFirst(stack') = Tail(TopFirst(stack))
          /\ result'.v.t = "element"
          /\ pc = "after" /\ value.reads < Len(value.list) =>
                result'.v.v = value.list[value.reads + 1]
          /\ value.reads >= Len(value.list) =>
                result'.v.v = value.siblings[value.reads - Len(value.list) + 1]
          /\ result' = Ok(Returned("element", Upcoming(value)[value.reads + 1]))
    /\ pc \in {"body", "after"} /\ pc' = "failed" =>
          /\ stack = <<>>
          /\ value.reads = Len(Upcoming(value))

\* C39: the facade neither checks arity nor discards unread children: the
\* closure of read_seq, read_tuple, read_tuple_struct or read_enum_variant
\* is called with the elements on top of the siblings, its return leaves
\* the stack as it is, a read after a closure that left elements unread
\* returns the first of them and not the next sibling, and a read past the
\* last element returns the next sibling.
C39_NoArityCheck == [][C39_Step]_vars

\* C39 witness: the closure read one of two elements and returned; the
\* next read returned the second element, with a sibling still under it.
C39_Witness ==
    /\ pc = "after"
    /\ Len(value.list) = 2
    /\ value.issued = 1
    /\ value.reads = 2
    /\ value.siblings # <<>>
    /\ value.list[2] # value.siblings[1]
    /\ result = Ok(Returned("element", value.list[2]))
    /\ Len(stack) = Len(value.siblings)


-----------------------------------------------------------------------------
(* #[derive(Debug)]: the format string of fmt and the size_hint *)

\* usize::MAX, for a usize narrow enough that the names below overflow it.
UsizeMax == 31

saturating_add(a, b) == IF a + b > UsizeMax THEN UsizeMax ELSE a + b

checked_add(a, b) == IF a + b > UsizeMax THEN None ELSE Some(a + b)

\* fmt::SizeHint { min: min, max: max }
SizeHint(min, max) == [min |-> min, max |-> max]

\* add without the test for overflow: min and max grow past usize::MAX.
add_unchecked(h, num) ==
    SizeHint(h.min + num,
             IF h.max.t = "Some" THEN Some(h.max.v + num) ELSE None)

\* let mut add = |&mut: num| { min = min.saturating_add(num);
\*                             max = max.and_then(|n| n.checked_add(num)) };
add(h, num) ==
    SizeHint(saturating_add(h.min, num),
             IF h.max.t = "Some" THEN checked_add(h.max.v, num) ELSE None)

\* for (i, field) in fields.iter().enumerate() of the tuple shapes, from
\* the field at index i on.
RECURSIVE tuple_hint(_, _, _)
tuple_hint(h, fields, i) ==
    IF i >= Len(fields) THEN h
    ELSE tuple_hint(IF i # 0 THEN add(h, 2) ELSE h, fields, i + 1)

\* The same loop of the shapes with named fields.
RECURSIVE named_hint(_, _, _)
named_hint(h, fields, i) ==
    IF i >= Len(fields) THEN h
    ELSE named_hint(
             add(add(add(IF i # 0 THEN add(h, 1) ELSE h, 1),
                     Len(fields[i + 1].name.v)), 2),
             fields, i + 1)

\* size_hint_substructure up to the fold: min and max of the SizeHint
\* literal in the generated code.
static_hint(name, fields) ==
    Let(SizeHint(Len(name), Some(Len(name))), LAMBDA h :
        IF Len(fields) = 0 THEN h
        ELSE IF fields[1].name.t = "None"
        THEN add(tuple_hint(add(h, 1), fields, 0), 1)
        ELSE add(named_hint(add(h, 2), fields, 0), 2))

\* SizeHint + SizeHint
hint_add(a, b) ==
    SizeHint(saturating_add(a.min, b.min),
             IF a.max.t = "Some" /\ b.max.t = "Some"
             THEN checked_add(a.max.v, b.max.v) ELSE None)

\* exprs.into_iter().fold(hint, |sum, expr| sum + Debug::size_hint(&expr))
RECURSIVE hint_fold(_, _)
hint_fold(sum, exprs) ==
    IF exprs = <<>> THEN sum
    ELSE hint_fold(hint_add(sum, Head(exprs).hint), Tail(exprs))

\* The size_hint the derived implementation computes for the value v.
size_hint(v) == hint_fold(static_hint(v.name, v.fields), v.fields)

RECURSIVE tuple_format(_, _, _)
tuple_format(s, fields, i) ==
    IF i >= Len(fields) THEN s
    ELSE tuple_format((IF i # 0 THEN s \o Str(<<",", " ">>) ELSE s)
                          \o Str(<<"{", ":", "?", "}">>),
                      fields, i + 1)

RECURSIVE named_format(_, _, _)
named_format(s, fields, i) ==
    IF i >= Len(fields) THEN s
    ELSE named_format((IF i # 0 THEN s \o Str(<<",">>) ELSE s)
                          \o Str(<<" ">>) \o fields[i + 1].name.v
                          \o Str(<<":", " ", "{", ":", "?", "}">>),
                      fields, i + 1)

\* show_substructure: the format string handed to write_fmt.
show_substructure(name, fields) ==
    IF Len(fields) = 0 THEN name
    ELSE IF fields[1].name.t = "None"
    THEN tuple_format(name \o Str(<<"(">>), fields, 0) \o Str(<<")">>)
    ELSE named_format(name \o Str(<<" ", "{", "{">>), fields, 0)
             \o Str(<<" ", "}", "}">>)

\* The index of the first '}' of s at or after index i.
RECURSIVE CloseAt(_, _)
CloseAt(s, i) ==
    IF i > Len(s) \/ s[i] = C("}") THEN i ELSE CloseAt(s, i + 1)

\* What write_fmt writes for the format string s from index i on: {{ and }}
\* are the two braces, {...} is the next of args, the rest is written as
\* it is.
RECURSIVE write_fmt(_, _, _)
write_fmt(s, i, args) ==
    IF i > Len(s) THEN <<>>
    ELSE IF i < Len(s) /\ s[i] = s[i + 1] /\ s[i] \in {C("{"), C("}")}
    THEN <<s[i]>> \o write_fmt(s, i + 2, args)
    ELSE IF s[i] = C("{")
    THEN Head(args) \o write_fmt(s, CloseAt(s, i) + 1, Tail(args))
    ELSE <<s[i]>> \o write_fmt(s, i + 1, args)

\* fmt of the derived implementation: the text written for the value v.
Debug_fmt(v) ==
    write_fmt(show_substructure(v.name, v.fields), 1,
              [i \in DOMAIN v.fields |-> v.fields[i].text])

MaxShapeFields == 2

\* Unit, Tuple, Struct and StructVariant
TypeNames ==
    {Str(<<"U", "n", "i", "t">>), Str(<<"T", "u", "p", "l", "e">>),
     Str(<<"S", "t", "r", "u", "c", "t">>),
     Str(<<"S", "t", "r", "u", "c", "t", "V", "a", "r", "i", "a", "n", "t">>)}

FieldNames ==
    {Str(<<"x">>), Str(<<"y">>),
     Str(<<"S", "t", "r", "u", "c", "t", "V", "a", "r", "i", "a", "n", "t">>)}

\* The integers 1, 2 and 1234567 as fmt writes them; the size_hint of an
\* integer is the number of characters written.
IntTexts ==
    {Str(<<"1">>), Str(<<"2">>), Str(<<"1", "2", "3", "4", "5", "6", "7">>)}

\* A field of the value: its name if it has one, what fmt writes for it
\* and its own size_hint.
Field(name, text) ==
    [name |-> name, text |-> text,
     hint |-> SizeHint(Len(text), Some(Len(text)))]

FieldSeqs(F) == UNION {[1..k -> F] : k \in 1..MaxShapeFields}

\* The values of the derived types: unit shapes, tuple shapes and shapes
\* with named fields.
DebugValues ==
    {[name |-> n, fields |-> fs] :
        n \in TypeNames,
        fs \in {<<>>}
            \cup FieldSeqs({Field(None, t) : t \in IntTexts})
            \cup FieldSeqs({Field(Some(f), t) :
                               f \in FieldNames, t \in IntTexts})}

InitDebug == InitValue(DebugValues)

\* format!("{:?}", value): the derived fmt.
Fmt ==
    /\ pc \in {"value", "hinted"}
    /\ wr' = Debug_fmt(value)
    /\ pc' = IF pc = "value" THEN "shown" ELSE "both"
    /\ UNCHANGED <<input, result, value, decoderVars, spaces, indent>>

\* Debug::size_hint(&value): the derived size_hint.
SizeHintOf ==
    /\ pc \in {"value", "shown"}
    /\ result' = size_hint(value)
    /\ pc' = IF pc = "value" THEN "hinted" ELSE "both"
    /\ UNCHANGED <<input, value, decoderVars, encoderVars>>

NextDebug == Fmt \/ SizeHintOf

SpecDebug == InitDebug /\ [][NextDebug]_vars

\* The literal characters the format string of v prints: what write_fmt
\* writes when the fields write nothing.
LiteralCount(v) ==
    Len(write_fmt(show_substructure(v.name, v.fields), 1,
                  [i \in DOMAIN v.fields |-> <<>>]))

RECURSIVE SumOf(_)
SumOf(ns) == IF ns = <<>> THEN 0 ELSE Head(ns) + SumOf(Tail(ns))

\* The same number, counted shape by shape: the name; '(', ', ' between
\* the fields and ')'; or ' {', ',' between the fields, ' ', the name and
\* ': ' for each field, and ' }'.
ShapeCount(v) ==
    Len(v.name) +
        (IF Len(v.fields) = 0 THEN 0
         ELSE IF v.fields[1].name.t = "None"
         THEN 1 + 2 * (Len(v.fields) - 1) + 1
         ELSE 2 + (Len(v.fields) - 1)
                + SumOf([i \in DOMAIN v.fields |->
                            1 + Len(v.fields[i].name.v) + 2])
                + 2)

\* Tuple(1, 2) and Struct { x: 1, y: 2 }
TupleOneTwo ==
    [name |-> Str(<<"T", "u", "p", "l", "e">>),
     fields |-> <<Field(None, Str(<<"1">>)), Field(None, Str(<<"2">>))>>]

StructOneTwo ==
    [name |-> Str(<<"S", "t", "r", "u", "c", "t">>),
     fields |-> <<Field(Some(Str(<<"x">>)), Str(<<"1">>)),
                  Field(Some(Str(<<"y">>)), Str(<<"2">>))>>]

Saturated(n) == IF n > UsizeMax THEN UsizeMax ELSE n

Checked(n) == IF n > UsizeMax THEN None ELSE Some(n)

\* C40: the min and max the derived size_hint computes before the fields'
\* own hints are added are the number of literal characters the format
\* string of fmt prints, min saturating and max None when that number
\* overflows, so that min <= max when there is a max; with the hints of
\* the fields added, Tuple(1, 2) gives 11 for both and
\* Struct { x: 1, y: 2 } gives 21, the lengths of the texts fmt writes.
C40_StaticSizeHint ==
    Let(static_hint(value.name, value.fields), LAMBDA s :
        /\ LiteralCount(value) = ShapeCount(value)
        /\ s.min = Saturated(LiteralCount(value))
        /\ s.max = Checked(LiteralCount(value))
        /\ s.max.t = "Some" => s.min <= s.max.v
        /\ pc \in {"hinted", "both"} =>
              /\ result.max.t = "Some" => result.min <= result.max.v
              /\ value = TupleOneTwo => result = SizeHint(11, Some(11))
              /\ value = StructOneTwo => result = SizeHint(21, Some(21))
        /\ pc = "both" =>
              /\ result.min = Saturated(Len(wr))
              /\ result.max = Checked(Len(wr)))

\* C40 witness: Struct { x: 1, y: 2 } was written and its size_hint taken:
\* 19 literal characters and one for each field.
C40_Witness ==
    /\ pc = "both"
    /\ value = StructOneTwo
    /\ wr = Str(<<"S", "t", "r", "u", "c", "t", " ", "{", " ", "x", ":", " ",
                  "1", ",", " ", "y", ":", " ", "2", " ", "}">>)
    /\ static_hint(value.name, value.fields) = SizeHint(19, Some(19))
    /\ result = SizeHint(21, Some(21))

=============================================================================
